---- MODULE Spec2Model ----
(***************************************************************************)
(* PrivacyRPC desktop proxy: the relay (Tor) supervisor of tor.rs, the     *)
(* shared ProxyConfig and the connection handlers of proxy.rs.             *)
(*                                                                         *)
(* Every accepted connection is one task (tokio::spawn in the accept       *)
(* loop); a task handles one request and closes.  GLOBAL_TOR is a tokio    *)
(* Mutex<Option<TorManager>> held by global_enable_tor/global_disable_tor/ *)
(* global_get_status for their whole body; PROXY_CONFIG is a parking_lot   *)
(* mutex taken for single reads and writes only.                           *)
(***************************************************************************)
EXTENDS Naturals, Integers, Sequences, FiniteSets, TLC

(* ------------------------------ bounds -------------------------------- *)

\* Number of connection tasks that can be in flight at once.
NumConns == 2
\* Process ids the relay subprocesses can get.
MaxChildren == 2
\* find_free_port answers a port in 1..MaxPort.
MaxPort == 2

Conns == 1 .. NumConns
Ports == 1 .. MaxPort

(* ------------------------- Option<T> encoding ------------------------- *)

\* Option<T> is a sequence of length at most one.
None == << >>
Some(x) == << x >>
IsSome(o) == Len(o) = 1
Unwrap(o) == o[1]

(* ----------------------------- constants ------------------------------ *)

JITO_METHODS ==
  { "getTipAccounts", "sendBundle", "getBundleStatuses", "simulateBundle",
    "getInflightBundleStatuses" }
JITO_MAINNET_URL == "https://mainnet.block-engine.jito.wtf/api/v1/bundles"
DEFAULT_RPC_URL == "https://api.mainnet-beta.solana.com"

\* Option<Child> / u16 port "absent" values.
NoChild == 0
NoHolder == 0

(* --------------------------- TorManager ------------------------------- *)

\* TorManager::new: no child, no control socket, ports 0, status fields clear.
\* control_stream is TRUE when the Option<TcpStream> is Some; exit_ip is an
\* Option<String>.
NewManager ==
  [ process |-> NoChild, control_stream |-> FALSE,
    socks_port |-> 0, control_port |-> 0,
    is_running |-> FALSE, is_bootstrapped |-> FALSE,
    bootstrap_progress |-> 0, exit_ip |-> None ]

\* TorStatus::default().
DefaultStatus ==
  [ is_running |-> FALSE, is_bootstrapped |-> FALSE, bootstrap_progress |-> 0,
    socks_port |-> 0, control_port |-> 0, exit_ip |-> None ]

\* TorManager::get_status.
get_status(m) ==
  [ is_running |-> m.is_running, is_bootstrapped |-> m.is_bootstrapped,
    bootstrap_progress |-> m.bootstrap_progress,
    socks_port |-> m.socks_port, control_port |-> m.control_port,
    exit_ip |-> m.exit_ip ]

\* TorManager::stop: the manager after the stop sequence.
stop_keeps_progress(m) ==
  [ m EXCEPT !.control_stream = FALSE, !.process = NoChild,
             !.is_running = FALSE, !.is_bootstrapped = FALSE, !.exit_ip = None ]

stop(m) ==
  [ m EXCEPT !.control_stream = FALSE, !.process = NoChild,
             !.is_running = FALSE, !.is_bootstrapped = FALSE,
             !.bootstrap_progress = 0, !.exit_ip = None ]

\* TorManager::socks_port.
socks_port_control(m) == m.control_port

socks_port(m) == m.socks_port

\* The children a manager's stop kills (child.kill().await on Some(child)).
stop_kills(m) == IF m.process = NoChild THEN {} ELSE { m.process }

\* Dropping a TorManager drops its Child, spawned with kill_on_drop(true).
drop_kills_nothing(m) == {}

drop_kills(m) == IF m.process = NoChild THEN {} ELSE { m.process }

(* ------------------ relay log lines and start outcomes ---------------- *)

\* Largest value parse::<u8>() accepts.
U8_MAX == 255

\* A stdout line of the relay: pct is the number written between
\* "Bootstrapped " and "%" (None when the line has no such text), tags the
\* fatal markers the line contains.
FatalTags == { "[err]", "[warn] Could not bind" }
PctTexts == { None, Some(0), Some(50), Some(100), Some(150), Some(300) }
Lines == [ pct : PctTexts, tags : SUBSET FatalTags ]

\* parse_bootstrap_progress: Some(n) when the text parses as a u8.
parse_bootstrap_progress(line) ==
  IF IsSome(line.pct) /\ Unwrap(line.pct) <= U8_MAX THEN line.pct ELSE None

\* One iteration of the bootstrap loop of TorManager::start on `line`:
\* the manager afterwards and whether the loop goes on, returns Ok or
\* returns Err.
bootstrap_line_nomark(m, line) ==
  LET p  == parse_bootstrap_progress(line)
      m1 == IF IsSome(p) THEN [ m EXCEPT !.bootstrap_progress = Unwrap(p) ] ELSE m
  IN  IF IsSome(p) /\ Unwrap(p) = 100
        THEN [ mgr |-> m1, result |-> "ok" ]
        ELSE IF line.tags # {}
               THEN [ mgr |-> m1, result |-> "err" ]
               ELSE [ mgr |-> m1, result |-> "continue" ]

bootstrap_line(m, line) ==
  LET p  == parse_bootstrap_progress(line)
      m1 == IF IsSome(p) THEN [ m EXCEPT !.bootstrap_progress = Unwrap(p) ] ELSE m
  IN  IF IsSome(p) /\ Unwrap(p) = 100
        THEN [ mgr |-> [ m1 EXCEPT !.is_bootstrapped = TRUE ], result |-> "ok" ]
        ELSE IF line.tags # {}
               THEN [ mgr |-> m1, result |-> "err" ]
               ELSE [ mgr |-> m1, result |-> "continue" ]

\* Where TorManager::start can fail before the child is spawned, in order.
EarlyFailures ==
  { "create_dir_all", "socks_port", "control_port", "find_tor_binary",
    "write_torrc", "spawn" }

\* Outcomes of connect_control: cookie read, TCP connect, AUTHENTICATE reply.
ControlOutcomes ==
  { "ok", "cookie_unreadable", "connect_refused", "auth_not_250", "auth_timeout" }

\* Exit addresses detect_exit_ip can learn.
ExitIps == { "185.220.101.1" }

(* --------------------------- HTTP requests ---------------------------- *)

\* A JSON member: absent, present but not a string, or a string.
JAbsent == [ t |-> "absent", s |-> "" ]
JOther == [ t |-> "other", s |-> "" ]
JStr(s) == [ t |-> "str", s |-> s ]
\* serde_json Value::get(..).and_then(|v| v.as_str())
as_str(v) == IF v.t = "str" THEN Some(v.s) ELSE None

\* A request body as serde_json::from_slice sees it.
NotJson == [ valid |-> FALSE, method |-> JAbsent, url |-> JAbsent ]
RpcBody(m) == [ valid |-> TRUE, method |-> m, url |-> JAbsent ]
UrlBody(u) == [ valid |-> TRUE, method |-> JAbsent, url |-> u ]

RpcMethods == JITO_METHODS \cup { "getSlot", "sendTransaction" }
RpcBodies ==
  { NotJson, RpcBody(JAbsent), RpcBody(JOther) } \cup { RpcBody(JStr(m)) : m \in RpcMethods }
EndpointUrls == { "", "https://ep.example" }
UrlBodies ==
  { NotJson, UrlBody(JAbsent), UrlBody(JOther) } \cup { UrlBody(JStr(u)) : u \in EndpointUrls }

\* Header lines as "key: value" pairs; a line without ':' has key "".
HeaderLines ==
  { [ key |-> "X-Target-URL", value |-> " https://other " ],
    [ key |-> "x-target-url", value |-> "https://other" ],
    [ key |-> "X-Target-URL", value |-> " " ],
    [ key |-> "X-Target-Url", value |-> "" ],
    [ key |-> "Accept", value |-> "*/*" ] }
\* Header lines in one request.
MaxHeaderLines == 2
HeaderBlocks == UNION { [ 1 .. n -> HeaderLines ] : n \in 0 .. MaxHeaderLines }

\* str::to_lowercase and str::trim on the texts above.
to_lowercase(k) ==
  CASE k = "X-Target-URL" -> "x-target-url"
    [] k = "X-Target-Url" -> "x-target-url"
    [] k = "Accept" -> "accept"
    [] OTHER -> k
trim(v) ==
  CASE v = " https://other " -> "https://other"
    [] v = " https://ep.example " -> "https://ep.example"
    [] v = " " -> ""
    [] OTHER -> v

\* The header loop of handle_connection: the last x-target-url line wins.
RECURSIVE target_url_header(_)
target_url_header(lines) ==
  IF lines = << >> THEN None
  ELSE LET last == lines[Len(lines)]
       IN  IF to_lowercase(last.key) = "x-target-url"
             THEN Some(trim(last.value))
             ELSE target_url_header(SubSeq(lines, 1, Len(lines) - 1))

\* rpc_method / is_jito_method of handle_connection.
rpc_method(body) == IF body.valid THEN as_str(body.method) ELSE None
is_jito_method(body) ==
  IsSome(rpc_method(body)) /\ Unwrap(rpc_method(body)) \in JITO_METHODS

\* final_target: Jito endpoint, private endpoint, header, default.
final_target_headerfirst(body, endpoint, header) ==
  IF is_jito_method(body) THEN JITO_MAINNET_URL
  ELSE IF IsSome(header) THEN Unwrap(header)
  ELSE IF IsSome(endpoint) THEN Unwrap(endpoint)
  ELSE DEFAULT_RPC_URL

final_target(body, endpoint, header) ==
  IF is_jito_method(body) THEN JITO_MAINNET_URL
  ELSE IF IsSome(endpoint) THEN Unwrap(endpoint)
  ELSE IF IsSome(header) THEN Unwrap(header)
  ELSE DEFAULT_RPC_URL

\* The relay test of handle_connection and handle_connect on a config snapshot.
use_relay_never(config) == FALSE

use_relay(config) == config.tor_enabled /\ config.tor_socks_port > 0

\* Request lines: the method and the path split at '/'.  A CONNECT line
\* carries its target split at the first ':' (splitn(2, ':')).
Line(verb, path) == [ verb |-> verb, path |-> path ]
NoLine == Line("", << >>)
PostRoot == Line("POST", << >>)
ControlLines ==
  { Line("GET", << "status" >>),
    Line("POST", << "control", "enable_tor" >>),
    Line("POST", << "control", "disable_tor" >>),
    Line("POST", << "control", "set_rpc" >>),
    Line("POST", << "control", "clear_rpc" >>),
    Line("POST", << "control", "reload" >>) }
\* The other built-in endpoints, "POST /control" without the slash, a line
\* that is no HTTP request line and the empty line read at end of stream.
BuiltinLines ==
  { Line("GET", << "health" >>), Line("GET", << "test-routing" >>),
    Line("GET", << "config" >>), Line("OPTIONS", << "*" >>),
    Line("POST", << "decode" >>), Line("POST", << "control", "new_circuit" >>) }
OtherLines ==
  { Line("POST", << "control" >>), Line("GET", << "other" >>), Line("garbage", << >>),
    NoLine }
ConnectLines ==
  { Line("CONNECT", << "example.com", "443" >>), Line("CONNECT", << "example.com" >>) }

\* request_line.starts_with("<verb> /<prefix...>")
starts_with(line, verb, prefix) ==
  /\ line.verb = verb
  /\ Len(line.path) >= Len(prefix)
  /\ SubSeq(line.path, 1, Len(prefix)) = prefix

\* The demultiplexing of handle_connection and handle_control_endpoint: the
\* first step of the handler the request line selects.
\* "POST /control/" needs the slash: a path of at least two segments.
is_control(line) ==
  \/ starts_with(line, "POST", << "control" >>) /\ Len(line.path) >= 2
  \/ starts_with(line, "GET", << "status" >>)

\* Lines 288-564 and handle_control_endpoint: the request line as the
\* buffered reader gives it, matched with starts_with.
http_dispatch(line) ==
  IF is_control(line) THEN
    IF starts_with(line, "GET", << "status" >>) THEN "status_config"
    ELSE IF starts_with(line, "POST", << "control", "enable_tor" >>) THEN "enable_tor"
    ELSE IF starts_with(line, "POST", << "control", "disable_tor" >>) THEN "disable_tor"
    ELSE IF starts_with(line, "POST", << "control", "new_circuit" >>) THEN "new_circuit"
    ELSE IF starts_with(line, "POST", << "control", "set_rpc" >>) THEN "set_rpc"
    ELSE IF starts_with(line, "POST", << "control", "clear_rpc" >>) THEN "clear_rpc"
    ELSE "unknown_control"
  ELSE IF starts_with(line, "GET", << "health" >>) THEN "health"
  ELSE IF starts_with(line, "GET", << "test-routing" >>) THEN "test_routing"
  ELSE IF starts_with(line, "GET", << "config" >>) THEN "config"
  ELSE IF line.verb = "OPTIONS" THEN "options"
  ELSE IF starts_with(line, "POST", << "decode" >>) THEN "decode"
  ELSE "forward_route"

dispatch_forwards_unknown(line) ==
  IF line.verb = "CONNECT" THEN "connect_config"
  ELSE IF is_control(line) THEN
    IF starts_with(line, "GET", << "status" >>) THEN "status_config"
    ELSE IF starts_with(line, "POST", << "control", "enable_tor" >>) THEN "enable_tor"
    ELSE IF starts_with(line, "POST", << "control", "disable_tor" >>) THEN "disable_tor"
    ELSE IF starts_with(line, "POST", << "control", "new_circuit" >>) THEN "new_circuit"
    ELSE IF starts_with(line, "POST", << "control", "set_rpc" >>) THEN "set_rpc"
    ELSE IF starts_with(line, "POST", << "control", "clear_rpc" >>) THEN "clear_rpc"
    ELSE "forward_route"
  ELSE IF starts_with(line, "GET", << "health" >>) THEN "health"
  ELSE IF starts_with(line, "GET", << "test-routing" >>) THEN "test_routing"
  ELSE IF starts_with(line, "GET", << "config" >>) THEN "config"
  ELSE IF line.verb = "OPTIONS" THEN "options"
  ELSE IF starts_with(line, "POST", << "decode" >>) THEN "decode"
  ELSE "forward_route"

\* Lines 279-285 when the peek shows the first seven bytes of the request.
dispatch(line) ==
  IF line.verb = "CONNECT" THEN "connect_config" ELSE http_dispatch(line)

\* The handlers that read Content-Length bytes of body with read_exact.
reads_body(line) ==
  dispatch(line) \notin { "connect_config", "health", "test_routing", "config", "options" }

\* How the client's stream ends: after the whole request, before the
\* request line is complete, inside the header block, before Content-Length
\* bytes of body have arrived, or with a read error (reset, bytes that are
\* no UTF-8) in the request line or a header line.
Ends == { "complete", "eof_in_line", "eof_in_headers", "short_body", "read_error" }

\* The requests clients send while the relay is switched on and off: JSON-RPC
\* posts, CONNECT tunnels, GET /status and the relay control endpoints.
RelayLines ==
  { l \in ControlLines : dispatch(l) \notin { "set_rpc", "clear_rpc" } }
Requests ==
  [ line : { PostRoot }, headers : { << >> }, body : { RpcBody(JStr("getSlot")) },
    ends : { "complete" } ]
    \cup [ line : ConnectLines, headers : { << >> }, body : { NotJson }, ends : { "complete" } ]
    \cup [ line : RelayLines, headers : { << >> }, body : { NotJson }, ends : { "complete" } ]

\* The requests clients send while the upstream endpoint is set and cleared:
\* JSON-RPC posts with every body and header block, set_rpc and clear_rpc.
RoutingRequests ==
  [ line : { PostRoot }, headers : HeaderBlocks, body : RpcBodies, ends : { "complete" } ]
    \cup [ line : { Line("POST", << "control", "set_rpc" >>) }, headers : { << >> },
           body : UrlBodies, ends : { "complete" } ]
    \cup [ line : { Line("POST", << "control", "clear_rpc" >>) }, headers : { << >> },
           body : { NotJson }, ends : { "complete" } ]

\* CONNECT requests, whole or cut by a read error.
TunnelRequests ==
  [ line : ConnectLines, headers : { << >> }, body : { NotJson },
    ends : { "complete", "read_error" } ]

\* The requests of the HTTP path, well formed or not: every request line
\* above but the relay switches, ended in each of the ways a stream can
\* end; JSON-RPC bodies on "POST /" and url bodies on set_rpc.
HttpLines ==
  ({ PostRoot } \cup ControlLines \cup BuiltinLines \cup OtherLines)
    \ { l \in ControlLines : dispatch(l) \in { "enable_tor", "disable_tor" } }
HttpRequests ==
  [ line : { PostRoot }, headers : { << >> },
    body : { NotJson, RpcBody(JStr("getSlot")), RpcBody(JStr("sendTransaction")) },
    ends : Ends ]
    \cup [ line : { Line("POST", << "control", "set_rpc" >>) }, headers : { << >> },
           body : { NotJson, UrlBody(JStr("https://ep.example")), UrlBody(JStr("")) },
           ends : Ends ]
    \cup [ line : HttpLines, headers : { << >> }, body : { NotJson }, ends : Ends ]

(* ------------------------------- state -------------------------------- *)

VARIABLES
  cfg,        \* PROXY_CONFIG
  globalTor,  \* GLOBAL_TOR: Option<TorManager>
  torLock,    \* the task holding the GLOBAL_TOR mutex, or NoHolder
  alive,      \* relay subprocesses that are running
  pc,         \* where each connection task is
  req,        \* the request each task has read (short: its body was cut short)
  mgr,        \* the TorManager local to a task in global_enable_tor
  route,      \* the upstream target and egress a task has chosen
  resp,       \* the response a task is about to write
  acceptLoops,\* accept-loop tasks that are running
  counted,    \* what a connection has added to REQUESTS_PROXIED and BYTES_TRANSFERRED
  upstream,   \* the outcome of the upstream POST a connection has made
  tunnel,     \* the CONNECT tunnel of a connection
  shutdown,   \* SHUTDOWN_TX and the oneshot signal to the accept loop
  risk,       \* one run of the risk grading of parse_message
  compact,    \* one run of read_compact_u16
  decoder,    \* one run of decode_transaction
  builder     \* a ConfigBuilder of the SDK and the Config built from it

vars ==
  << cfg, globalTor, torLock, alive, pc, req, mgr, route, resp, acceptLoops,
     counted, upstream, tunnel, shutdown, risk, compact, decoder, builder >>

\* The state of the decoder and of the SDK, which no proxy or supervisor
\* step touches.
libs == << risk, compact, decoder, builder >>
NoRun == [ stage |-> "none" ]

NoReq == [ line |-> NoLine, header |-> None, body |-> NotJson, short |-> FALSE ]
NoRoute == [ target |-> "", via |-> "none", port |-> 0 ]

\* A body on the wire: a literal of the source with its byte length, or a
\* string built at run time (serde_json, format!, the upstream's bytes) of
\* which only the name and the byte length are kept.
Bytes(s) == [ text |-> s, len |-> Len(s) ]
Built(name, n) == [ text |-> name, len |-> n ]
\* Byte lengths a string built at run time can have.
MaxBody == 2
BodyLens == 1 .. MaxBody

\* A response: the status code, the TorStatus it reports, the value of
\* its Content-Length header (None when it has none) and its body.
NoResp == [ code |-> 0, status |-> DefaultStatus, length |-> None, body |-> Bytes("") ]

\* REQUESTS_PROXIED.fetch_add / BYTES_TRANSFERRED.fetch_add: the amounts one
\* connection's handler has added to the two counters.
NoCount == [ requests_proxied |-> 0, bytes_transferred |-> 0 ]
\* client.post(..).send(): not sent, failed in transport, or answered with
\* a status and a body of len bytes.
NoUpstream == [ sent |-> FALSE, ok |-> FALSE, status |-> 0, len |-> 0 ]
\* handle_connect after the dial: the bytes each copy loop has read and
\* written, and the bytes it has read and counted but not yet written.
\* state is "open" while handle_connect owns the client and the target
\* stream and "closed" once both are dropped; ended holds the copy loops
\* that have left their loop.
NoTunnel ==
  [ state |-> "none", ended |-> {},
    from_client |-> 0, to_target |-> 0, held_c2t |-> 0,
    from_target |-> 0, to_client |-> 0, held_t2c |-> 0 ]
\* Bytes the two peers of one tunnel send before they stop.
MaxTunnelBytes == 2

Init ==
  /\ acceptLoops = 0
  /\ cfg = [ running |-> FALSE, tor_enabled |-> FALSE, tor_socks_port |-> 0,
             rpc_endpoint |-> None ]
  /\ globalTor = None
  /\ torLock = NoHolder
  /\ alive = {}
  /\ pc = [ t \in Conns |-> "idle" ]
  /\ req = [ t \in Conns |-> NoReq ]
  /\ mgr = [ t \in Conns |-> None ]
  /\ route = [ t \in Conns |-> NoRoute ]
  /\ resp = [ t \in Conns |-> NoResp ]
  /\ counted = [ t \in Conns |-> NoCount ]
  /\ upstream = [ t \in Conns |-> NoUpstream ]
  /\ tunnel = [ t \in Conns |-> NoTunnel ]
  /\ shutdown = "none"
  /\ risk = NoRun /\ compact = NoRun /\ decoder = NoRun /\ builder = NoRun

\* set_tor_routing / set_rpc_endpoint on a config value.
set_tor_routing(config, enabled, port) ==
  [ config EXCEPT !.tor_enabled = enabled, !.tor_socks_port = port ]
set_rpc_endpoint(config, endpoint) == [ config EXCEPT !.rpc_endpoint = endpoint ]

\* Child handles held by some TorManager, alive or not.
held ==
  { m.process : m \in { Unwrap(o) : o \in { x \in { globalTor } \cup { mgr[t] : t \in Conns } : IsSome(x) } } }
\* Process ids a spawn can get: not running, not held as an unreaped child.
free_pids == (1 .. MaxChildren) \ (alive \cup held)
fresh_pid == CHOOSE p \in free_pids : \A q \in free_pids : p <= q

Goto(t, label) == pc' = [ pc EXCEPT ![t] = label ]
\* A response is made ready: code, Content-Length header and body.
ReplyWith(t, code, status, length, body) ==
  resp' = [ resp EXCEPT ![t] =
              [ code |-> code, status |-> status, length |-> length, body |-> body ] ]
\* handle_control_endpoint lines 676-683 on a body serialised at run time:
\* Content-Length is formatted from response_body.len().
Reply(t, code, status) ==
  \E n \in BodyLens : ReplyWith(t, code, status, Some(n), Built("json", n))
\* The same lines on a body that is a literal of the source.
ReplyText(t, code, text) ==
  ReplyWith(t, code, DefaultStatus, Some(Len(text)), Bytes(text))

(* ------------------------- listener and accept ------------------------ *)

\* start_proxy_server when the desktop shell has had `ports` ports to start
\* it on: bind succeeds on a port no live accept loop listens on; running is
\* set, the new sender replaces what SHUTDOWN_TX holds (a sender it held is
\* dropped, which completes the receiver of its loop), the loop is spawned.
\* shutdown is "armed" while SHUTDOWN_TX holds the sender of the newest
\* loop and "sent" once that sender has been fired; every other live loop
\* has a completed receiver.
StartProxyServerOn(ports) ==
  /\ acceptLoops < ports
  /\ acceptLoops' = acceptLoops + 1
  /\ cfg' = [ cfg EXCEPT !.running = TRUE ]
  /\ shutdown' = "armed"
  /\ UNCHANGED << globalTor, torLock, alive, pc, req, mgr, route, resp, counted, upstream, tunnel, libs >>

\* The server started on the one port the shell has by default.
StartProxyServer == StartProxyServerOn(1)

\* The accept loop hands a connection to a new task, which reads the request
\* line, the header block and the body its handler asks for.
delivered_headers(r) == IF r.ends = "eof_in_line" THEN << >> ELSE r.headers
delivered_body(r) ==
  IF r.ends = "complete" /\ reads_body(r.line) THEN r.body ELSE NotJson

\* Where the handler goes once the request is read: a read error or a body
\* cut short leaves it through `?`.
first_step_ignores_short(r) ==
  IF r.ends = "read_error" THEN "io_error" ELSE dispatch(r.line)

first_step(r) ==
  IF r.ends = "read_error" \/ (r.ends = "short_body" /\ reads_body(r.line))
    THEN "io_error"
    ELSE dispatch(r.line)

AcceptFrom(t, requests) ==
  /\ acceptLoops > 0
  /\ pc[t] = "idle"
  /\ \E r \in requests :
       /\ req' = [ req EXCEPT ![t] = [ line |-> r.line,
                                       header |-> target_url_header(delivered_headers(r)),
                                       body |-> delivered_body(r),
                                       short |-> (r.ends = "short_body") ] ]
       /\ Goto(t, first_step(r))
  /\ UNCHANGED << cfg, globalTor, torLock, alive, mgr, route, resp, acceptLoops, counted, upstream, tunnel, shutdown, libs >>

\* Lines 279-285: peek() fills at most PEEK_LEN bytes with what has arrived
\* of the request, n bytes; the tunnel path is taken when n >= 7 and the
\* seven bytes are "CONNECT", and every other connection is read as HTTP.
PEEK_LEN == 8
CONNECT_LEN == 7
peek_step(r, n) ==
  IF r.ends = "read_error" \/ (r.ends = "short_body" /\ reads_body(r.line))
    THEN "io_error"
    ELSE IF n >= CONNECT_LEN /\ r.line.verb = "CONNECT" THEN "connect_config"
    ELSE http_dispatch(r.line)

\* The connection handed to its task when the client's first segment has
\* n bytes, n in peeks.  AcceptFrom is the case of a first segment that
\* holds the verb.
AcceptPeeked(t, requests, peeks) ==
  /\ acceptLoops > 0
  /\ pc[t] = "idle"
  /\ \E r \in requests, n \in peeks :
       /\ req' = [ req EXCEPT ![t] = [ line |-> r.line,
                                       header |-> target_url_header(delivered_headers(r)),
                                       body |-> delivered_body(r),
                                       short |-> (r.ends = "short_body") ] ]
       /\ Goto(t, peek_step(r, n))
  /\ UNCHANGED << cfg, globalTor, torLock, alive, mgr, route, resp, acceptLoops, counted, upstream, tunnel, shutdown, libs >>

Accept(t) == AcceptFrom(t, Requests)
AcceptRouting(t) == AcceptFrom(t, RoutingRequests)
AcceptHttp(t) == AcceptFrom(t, HttpRequests)
AcceptTunnel(t) == AcceptFrom(t, TunnelRequests)

\* The handler returns with nothing more to write (an Err, a panic of its
\* task, the end of a tunnel): the connection is dropped.
HandlerReturn_stops_loop(t) ==
  /\ pc[t] \in { "io_error", "panic", "tunnel_done" }
  /\ Goto(t, "idle")
  /\ req' = [ req EXCEPT ![t] = NoReq ]
  /\ route' = [ route EXCEPT ![t] = NoRoute ]
  /\ resp' = [ resp EXCEPT ![t] = NoResp ]
  /\ counted' = [ counted EXCEPT ![t] = NoCount ]
  /\ upstream' = [ upstream EXCEPT ![t] = NoUpstream ]
  /\ tunnel' = [ tunnel EXCEPT ![t] = NoTunnel ]
  /\ acceptLoops' = 0
  /\ UNCHANGED << cfg, globalTor, torLock, alive, mgr, shutdown, libs >>

HandlerReturn(t) ==
  /\ pc[t] \in { "io_error", "panic", "tunnel_done" }
  /\ Goto(t, "idle")
  /\ req' = [ req EXCEPT ![t] = NoReq ]
  /\ route' = [ route EXCEPT ![t] = NoRoute ]
  /\ resp' = [ resp EXCEPT ![t] = NoResp ]
  /\ counted' = [ counted EXCEPT ![t] = NoCount ]
  /\ upstream' = [ upstream EXCEPT ![t] = NoUpstream ]
  /\ tunnel' = [ tunnel EXCEPT ![t] = NoTunnel ]
  /\ UNCHANGED << cfg, globalTor, torLock, alive, mgr, acceptLoops, shutdown, libs >>

\* The positions at which a handler has its response ready to write.
ReturnPcs ==
  { "respond", "enable_return_running", "enable_return_started", "enable_return_err",
    "disable_return" }

\* The response is written and the connection closed.
Respond(t) ==
  /\ pc[t] \in ReturnPcs
  /\ Goto(t, "idle")
  /\ req' = [ req EXCEPT ![t] = NoReq ]
  /\ route' = [ route EXCEPT ![t] = NoRoute ]
  /\ resp' = [ resp EXCEPT ![t] = NoResp ]
  /\ counted' = [ counted EXCEPT ![t] = NoCount ]
  /\ upstream' = [ upstream EXCEPT ![t] = NoUpstream ]
  /\ tunnel' = [ tunnel EXCEPT ![t] = NoTunnel ]
  /\ UNCHANGED << cfg, globalTor, torLock, alive, mgr, acceptLoops, shutdown, libs >>

(* --------------------------- JSON-RPC forward ------------------------- *)

\* Lines 459-485: the method is read from the body and the target chosen
\* with the endpoint get_rpc_endpoint() returns.
ForwardRoute(t) ==
  /\ pc[t] = "forward_route"
  /\ route' = [ route EXCEPT ![t].target =
                  final_target(req[t].body, cfg.rpc_endpoint, req[t].header) ]
  /\ Goto(t, "forward_client")
  /\ UNCHANGED << cfg, globalTor, torLock, alive, req, mgr, resp, acceptLoops, counted, upstream, tunnel, shutdown, libs >>

\* Lines 488-503: the client is built from a PROXY_CONFIG snapshot.
ForwardClient(t) ==
  /\ pc[t] = "forward_client"
  /\ route' = [ route EXCEPT ![t] =
                  IF use_relay(cfg)
                    THEN [ @ EXCEPT !.via = "socks", !.port = cfg.tor_socks_port ]
                    ELSE [ @ EXCEPT !.via = "direct" ] ]
  /\ Goto(t, "forward_send")
  /\ UNCHANGED << cfg, globalTor, torLock, alive, req, mgr, resp, acceptLoops, counted, upstream, tunnel, shutdown, libs >>

\* What send() can give: a transport error whose text has len bytes, or an
\* answer with a status and a body of len bytes that is no JSON, a JSON
\* object or a JSON array.
SendFailed(n) == [ ok |-> FALSE, status |-> 0, len |-> n, kind |-> "none" ]
Answered(status, n, kind) == [ ok |-> TRUE, status |-> status, len |-> n, kind |-> kind ]
UpstreamStatuses == { 200, 500 }
BasicOutcomes == { SendFailed(1), Answered(200, 1, "object") }
AllOutcomes ==
  { SendFailed(n) : n \in BodyLens }
    \cup { Answered(st, 0, "not_json") : st \in UpstreamStatuses }
    \cup { Answered(st, n, k) : st \in UpstreamStatuses, n \in BodyLens,
                                k \in { "not_json", "object", "array" } }

\* decode_rpc_transaction looks for a transaction only under these methods.
TX_METHODS ==
  { "signTransaction", "signAllTransactions", "sendTransaction", "simulateTransaction" }
tx_bearing(body) ==
  IsSome(rpc_method(body)) /\ Unwrap(rpc_method(body)) \in TX_METHODS

\* Lines 506-561.  A failed send is answered 502 and counts nothing.  An
\* answer of any status is counted and relayed under its own status; with a
\* decoded transaction a JSON object is re-serialised with _privacyrpc, and
\* indexing any other JSON value by that key panics.
ForwardSend_counts_failure(t, outcomes) ==
  /\ pc[t] = "forward_send"
  /\ \E o \in outcomes, decoded \in BOOLEAN, m \in BodyLens :
       /\ decoded => tx_bearing(req[t].body)
       /\ upstream' = [ upstream EXCEPT ![t] =
                          [ sent |-> TRUE, ok |-> o.ok, status |-> o.status, len |-> o.len ] ]
       /\ counted' = [ counted EXCEPT ![t] =
                         [ requests_proxied |-> @.requests_proxied + 1,
                           bytes_transferred |-> @.bytes_transferred + o.len ] ]
       /\ IF ~ o.ok
            THEN /\ ReplyWith(t, 502, DefaultStatus, Some(o.len), Built("proxy_error", o.len))
                 /\ Goto(t, "respond")
            ELSE IF decoded /\ o.kind = "array"
                   THEN /\ UNCHANGED resp
                        /\ Goto(t, "panic")
                   ELSE IF decoded /\ o.kind = "object"
                          THEN /\ ReplyWith(t, o.status, DefaultStatus, Some(m),
                                            Built("enriched", m))
                               /\ Goto(t, "respond")
                          ELSE /\ m = 1
                               /\ ReplyWith(t, o.status, DefaultStatus, Some(o.len),
                                            Built("upstream", o.len))
                               /\ Goto(t, "respond")
  /\ UNCHANGED << cfg, globalTor, torLock, alive, req, mgr, route, acceptLoops, tunnel, shutdown, libs >>

ForwardSendFrom(t, outcomes) ==
  /\ pc[t] = "forward_send"
  /\ \E o \in outcomes, decoded \in BOOLEAN, m \in BodyLens :
       /\ decoded => tx_bearing(req[t].body)
       /\ upstream' = [ upstream EXCEPT ![t] =
                          [ sent |-> TRUE, ok |-> o.ok, status |-> o.status, len |-> o.len ] ]
       /\ IF ~ o.ok
            THEN /\ UNCHANGED counted
                 /\ ReplyWith(t, 502, DefaultStatus, Some(o.len), Built("proxy_error", o.len))
                 /\ Goto(t, "respond")
            ELSE /\ counted' = [ counted EXCEPT ![t] =
                                   [ requests_proxied |-> @.requests_proxied + 1,
                                     bytes_transferred |-> @.bytes_transferred + o.len ] ]
                 /\ IF decoded /\ o.kind = "array"
                      THEN /\ UNCHANGED resp
                           /\ Goto(t, "panic")
                      ELSE IF decoded /\ o.kind = "object"
                             THEN /\ ReplyWith(t, o.status, DefaultStatus, Some(m),
                                               Built("enriched", m))
                                  /\ Goto(t, "respond")
                             ELSE /\ m = 1
                                  /\ ReplyWith(t, o.status, DefaultStatus, Some(o.len),
                                               Built("upstream", o.len))
                                  /\ Goto(t, "respond")
  /\ UNCHANGED << cfg, globalTor, torLock, alive, req, mgr, route, acceptLoops, tunnel, shutdown, libs >>

ForwardSend(t) == ForwardSendFrom(t, BasicOutcomes)
ForwardSendAll(t) == ForwardSendFrom(t, AllOutcomes)

(* ------------------------------ CONNECT ------------------------------- *)

\* handle_connect lines 716-747: snapshot, then the egress; under relay
\* routing a target without ':' is answered 400 and nothing is dialled.
ConnectConfig(t) ==
  /\ pc[t] = "connect_config"
  /\ IF use_relay(cfg)
       THEN IF Len(req[t].line.path) # 2
              THEN /\ ReplyText(t, 400, "")
                   /\ Goto(t, "respond")
                   /\ UNCHANGED route
              ELSE /\ route' = [ route EXCEPT ![t] =
                                   [ @ EXCEPT !.via = "socks", !.port = cfg.tor_socks_port ] ]
                   /\ Goto(t, "connect_dial")
                   /\ UNCHANGED resp
       ELSE /\ route' = [ route EXCEPT ![t] = [ @ EXCEPT !.via = "direct" ] ]
            /\ Goto(t, "connect_dial")
            /\ UNCHANGED resp
  /\ UNCHANGED << cfg, globalTor, torLock, alive, req, mgr, acceptLoops, counted, upstream, tunnel, shutdown, libs >>

\* Lines 749-813.  The dial succeeds: "200 Connection established" (no
\* Content-Length) is written and flushed, the request counted and the
\* tunnel opened; if that write fails the handler leaves through `?`
\* before counting.  The dial fails: 502 with Content-Length 0.
DialOutcomes == { "connected", "client_gone", "dial_failed" }

ConnectDial_counts_first(t) ==
  /\ pc[t] = "connect_dial"
  /\ counted' = [ counted EXCEPT ![t].requests_proxied = @ + 1 ]
  /\ \E outcome \in DialOutcomes :
       CASE outcome = "connected" ->
              /\ ReplyWith(t, 200, DefaultStatus, None, Bytes(""))
              /\ tunnel' = [ tunnel EXCEPT ![t].state = "open" ]
              /\ Goto(t, "tunnel")
         [] outcome = "client_gone" ->
              /\ UNCHANGED << resp, tunnel >>
              /\ Goto(t, "io_error")
         [] outcome = "dial_failed" ->
              /\ ReplyText(t, 502, "")
              /\ UNCHANGED tunnel
              /\ Goto(t, "respond")
  /\ UNCHANGED << cfg, globalTor, torLock, alive, req, mgr, route, acceptLoops, upstream, shutdown, libs >>

ConnectDial(t) ==
  /\ pc[t] = "connect_dial"
  /\ \E outcome \in DialOutcomes :
       CASE outcome = "connected" ->
              /\ ReplyWith(t, 200, DefaultStatus, None, Bytes(""))
              /\ counted' = [ counted EXCEPT ![t].requests_proxied = @ + 1 ]
              /\ tunnel' = [ tunnel EXCEPT ![t].state = "open" ]
              /\ Goto(t, "tunnel")
         [] outcome = "client_gone" ->
              /\ UNCHANGED << resp, counted, tunnel >>
              /\ Goto(t, "io_error")
         [] outcome = "dial_failed" ->
              /\ ReplyText(t, 502, "")
              /\ UNCHANGED << counted, tunnel >>
              /\ Goto(t, "respond")
  /\ UNCHANGED << cfg, globalTor, torLock, alive, req, mgr, route, acceptLoops, upstream, shutdown, libs >>

\* The copy loops, lines 764-796.  Dirs names them by the side they read.
Dirs == { "client", "target" }
tunnel_total(tn) == tn.from_client + tn.from_target
pending(tn, d) == IF d = "client" THEN tn.held_c2t ELSE tn.held_t2c

\* read() gives n > 0 bytes: they are counted, then write_all is awaited.
TunnelRead(t, d) ==
  /\ pc[t] = "tunnel"
  /\ tunnel[t].state = "open"
  /\ d \notin tunnel[t].ended
  /\ pending(tunnel[t], d) = 0
  /\ \E n \in 1 .. (MaxTunnelBytes - tunnel_total(tunnel[t])) :
       /\ counted' = [ counted EXCEPT ![t].bytes_transferred = @ + n ]
       /\ tunnel' = [ tunnel EXCEPT ![t] =
                        IF d = "client"
                          THEN [ @ EXCEPT !.from_client = @ + n, !.held_c2t = n ]
                          ELSE [ @ EXCEPT !.from_target = @ + n, !.held_t2c = n ] ]
  /\ UNCHANGED << cfg, globalTor, torLock, alive, pc, req, mgr, route, resp, acceptLoops, upstream, shutdown, libs >>

\* tokio::select!, lines 799-802: the first loop to leave ends the tunnel;
\* the other future is dropped where it waits and both streams are dropped.
select_joins(tn, d) ==
  [ tn EXCEPT !.ended = @ \cup { d },
              !.state = IF tn.ended \cup { d } = Dirs THEN "closed" ELSE "open" ]

select(tn, d) == [ tn EXCEPT !.ended = @ \cup { d }, !.state = "closed" ]

\* write_all completes and the bytes are on the other side, or it fails
\* and the loop is left.
TunnelWrite(t, d) ==
  /\ pc[t] = "tunnel"
  /\ tunnel[t].state = "open"
  /\ d \notin tunnel[t].ended
  /\ pending(tunnel[t], d) > 0
  /\ \E written \in BOOLEAN :
       LET tn == IF written
                   THEN IF d = "client"
                          THEN [ tunnel[t] EXCEPT !.to_target = @ + tunnel[t].held_c2t,
                                                  !.held_c2t = 0 ]
                          ELSE [ tunnel[t] EXCEPT !.to_client = @ + tunnel[t].held_t2c,
                                                  !.held_t2c = 0 ]
                   ELSE select(tunnel[t], d)
       IN  /\ tunnel' = [ tunnel EXCEPT ![t] = tn ]
           /\ Goto(t, IF tn.state = "closed" THEN "tunnel_done" ELSE "tunnel")
  /\ UNCHANGED << cfg, globalTor, torLock, alive, req, mgr, route, resp, acceptLoops, counted, upstream, shutdown, libs >>

\* read() gives Ok(0) or Err: the loop is left.
TunnelEof(t, d) ==
  /\ pc[t] = "tunnel"
  /\ tunnel[t].state = "open"
  /\ d \notin tunnel[t].ended
  /\ pending(tunnel[t], d) = 0
  /\ tunnel' = [ tunnel EXCEPT ![t] = select(@, d) ]
  /\ Goto(t, IF tunnel'[t].state = "closed" THEN "tunnel_done" ELSE "tunnel")
  /\ UNCHANGED << cfg, globalTor, torLock, alive, req, mgr, route, resp, acceptLoops, counted, upstream, shutdown, libs >>

(* -------------------------- control endpoints ------------------------- *)

\* GET /status, lines 610-613: the PROXY_CONFIG snapshot.
StatusConfig(t) ==
  /\ pc[t] = "status_config"
  /\ Goto(t, "status_tor")
  /\ UNCHANGED << cfg, globalTor, torLock, alive, req, mgr, route, resp, acceptLoops, counted, upstream, tunnel, shutdown, libs >>

\* global_get_status: lock GLOBAL_TOR, project the manager, unlock.
global_get_status(tor) == IF IsSome(tor) THEN get_status(Unwrap(tor)) ELSE DefaultStatus

StatusTor(t) ==
  /\ pc[t] = "status_tor"
  /\ torLock = NoHolder
  /\ Reply(t, 200, global_get_status(globalTor))
  /\ Goto(t, "respond")
  /\ UNCHANGED << cfg, globalTor, torLock, alive, req, mgr, route, acceptLoops, counted, upstream, tunnel, shutdown, libs >>

\* POST /control/set_rpc: 400 on a body that is no JSON, else the url member
\* (None when absent or not a string) becomes the endpoint.
SetRpc(t) ==
  /\ pc[t] = "set_rpc"
  /\ IF req[t].body.valid
       THEN /\ cfg' = set_rpc_endpoint(cfg, as_str(req[t].body.url))
            /\ Reply(t, 200, DefaultStatus)
       ELSE /\ UNCHANGED cfg
            /\ ReplyText(t, 400, "{\"error\":\"Invalid JSON body\"}")
  /\ Goto(t, "respond")
  /\ UNCHANGED << globalTor, torLock, alive, req, mgr, route, acceptLoops, counted, upstream, tunnel, shutdown, libs >>

\* POST /control/clear_rpc.
ClearRpc(t) ==
  /\ pc[t] = "clear_rpc"
  /\ cfg' = set_rpc_endpoint(cfg, None)
  /\ ReplyText(t, 200, "{\"status\":\"ok\",\"rpc_endpoint\":null}")
  /\ Goto(t, "respond")
  /\ UNCHANGED << globalTor, torLock, alive, req, mgr, route, acceptLoops, counted, upstream, tunnel, shutdown, libs >>

\* Any other POST /control/ path: 404.
UnknownControl(t) ==
  /\ pc[t] = "unknown_control"
  /\ ReplyText(t, 404, "{\"error\":\"Unknown control endpoint\"}")
  /\ Goto(t, "respond")
  /\ UNCHANGED << cfg, globalTor, torLock, alive, req, mgr, route, acceptLoops, counted, upstream, tunnel, shutdown, libs >>

\* POST /control/new_circuit: global_new_circuit takes the GLOBAL_TOR lock
\* and keeps it until new_circuit returns.  Lines 252-263: without a
\* bootstrapped supervisor with a control stream, or when NEWNYM is not
\* acknowledged with 250, the error is returned (500) at once.
NewCircuit(t) ==
  /\ pc[t] = "new_circuit"
  /\ torLock = NoHolder
  /\ IF IsSome(globalTor) /\ Unwrap(globalTor).is_bootstrapped
                          /\ Unwrap(globalTor).control_stream
       THEN \E acked \in BOOLEAN :
              IF acked
                THEN /\ torLock' = t
                     /\ Goto(t, "new_circuit_clear")
                     /\ UNCHANGED resp
                ELSE /\ Reply(t, 500, DefaultStatus)
                     /\ Goto(t, "respond")
                     /\ UNCHANGED torLock
       ELSE /\ Reply(t, 500, DefaultStatus)
            /\ Goto(t, "respond")
            /\ UNCHANGED torLock
  /\ UNCHANGED << cfg, globalTor, alive, req, mgr, route, acceptLoops, counted, upstream, tunnel, shutdown, libs >>

\* Lines 268-271: after the 1.5 s sleep the cached exit address is cleared.
NewCircuitClear_keeps_ip(t) ==
  /\ pc[t] = "new_circuit_clear"
  /\ Goto(t, "new_circuit_detect")
  /\ UNCHANGED << cfg, globalTor, torLock, alive, req, mgr, route, resp, acceptLoops, counted, upstream, tunnel, shutdown, libs >>

NewCircuitClear(t) ==
  /\ pc[t] = "new_circuit_clear"
  /\ globalTor' = Some([ Unwrap(globalTor) EXCEPT !.exit_ip = None ])
  /\ Goto(t, "new_circuit_detect")
  /\ UNCHANGED << cfg, torLock, alive, req, mgr, route, resp, acceptLoops, counted, upstream, tunnel, shutdown, libs >>

\* Line 272 and lines 651-654: detect_exit_ip caches the address when the
\* probe answers; what it returns is the exitIp of the 200 response.  The
\* guard of global_new_circuit is dropped on return.
NewCircuitDetect(t) ==
  /\ pc[t] = "new_circuit_detect"
  /\ \E ip \in { None } \cup { Some(a) : a \in ExitIps } :
       /\ globalTor' = IF IsSome(ip) THEN Some([ Unwrap(globalTor) EXCEPT !.exit_ip = ip ])
                       ELSE globalTor
       /\ Reply(t, 200, [ DefaultStatus EXCEPT !.exit_ip = ip ])
  /\ torLock' = NoHolder
  /\ Goto(t, "respond")
  /\ UNCHANGED << cfg, alive, req, mgr, route, acceptLoops, counted, upstream, tunnel, shutdown, libs >>

(* ------------------------- built-in endpoints ------------------------- *)

\* GET /health, lines 332-336: one string literal holds the header block
\* and the body.
HEALTH_BODY == "{\"status\":\"ok\",\"proxy\":\"running\"}"
HEALTH_CONTENT_LENGTH == 35

Health(t) ==
  /\ pc[t] = "health"
  /\ ReplyWith(t, 200, DefaultStatus, Some(HEALTH_CONTENT_LENGTH), Bytes(HEALTH_BODY))
  /\ Goto(t, "respond")
  /\ UNCHANGED << cfg, globalTor, torLock, alive, req, mgr, route, acceptLoops, counted, upstream, tunnel, shutdown, libs >>

\* GET /test-routing, lines 339-349: the report is serialised and framed
\* with body.len().
TestRouting(t) ==
  /\ pc[t] = "test_routing"
  /\ Reply(t, 200, DefaultStatus)
  /\ Goto(t, "respond")
  /\ UNCHANGED << cfg, globalTor, torLock, alive, req, mgr, route, acceptLoops, counted, upstream, tunnel, shutdown, libs >>

\* GET /config with a handler that puts the routing fields back to their
\* defaults.
Config_resets_routing(t) ==
  /\ pc[t] = "config"
  /\ cfg' = set_rpc_endpoint(set_tor_routing(cfg, FALSE, 0), None)
  /\ Reply(t, 200, DefaultStatus)
  /\ Goto(t, "respond")
  /\ UNCHANGED << globalTor, torLock, alive, req, mgr, route, acceptLoops, counted, upstream, tunnel, shutdown, libs >>

\* GET /config, lines 351-378.
Config(t) ==
  /\ pc[t] = "config"
  /\ Reply(t, 200, DefaultStatus)
  /\ Goto(t, "respond")
  /\ UNCHANGED << cfg, globalTor, torLock, alive, req, mgr, route, acceptLoops, counted, upstream, tunnel, shutdown, libs >>

\* OPTIONS, lines 380-384: the CORS preamble with Content-Length 0.
Options(t) ==
  /\ pc[t] = "options"
  /\ ReplyText(t, 200, "")
  /\ Goto(t, "respond")
  /\ UNCHANGED << cfg, globalTor, torLock, alive, req, mgr, route, acceptLoops, counted, upstream, tunnel, shutdown, libs >>

\* POST /decode, lines 387-427: success or error, always a 200 whose JSON
\* is serialised and framed with body.len().
Decode(t) ==
  /\ pc[t] = "decode"
  /\ Reply(t, 200, DefaultStatus)
  /\ Goto(t, "respond")
  /\ UNCHANGED << cfg, globalTor, torLock, alive, req, mgr, route, acceptLoops, counted, upstream, tunnel, shutdown, libs >>

(* ------------------ the desktop shell (main.rs) ----------------------- *)

\* Texts the set_rpc_endpoint command is given, and what config.json holds
\* once save_config_file has written an endpoint.
EndpointTexts == { "", " https://ep.example ", "ftp://ep.example" }
FileTexts == { "https://ep.example" }
\* endpoint.starts_with("http://") || endpoint.starts_with("https://")
has_http_scheme(u) == u \in { "https://ep.example", "http://ep.example" }

\* The set_rpc_endpoint command, main.rs lines 232-251: trimmed; empty
\* clears, a text without http:// or https:// is refused.
SetRpcEndpointCommand ==
  /\ \E text \in EndpointTexts :
       LET endpoint == trim(text)
       IN  cfg' = IF endpoint = "" THEN set_rpc_endpoint(cfg, None)
                  ELSE IF ~ has_http_scheme(endpoint) THEN cfg
                  ELSE set_rpc_endpoint(cfg, Some(endpoint))
  /\ UNCHANGED << globalTor, torLock, alive, pc, req, mgr, route, resp, acceptLoops, counted, upstream, tunnel, shutdown, libs >>

\* main(), lines 346-351: the endpoint string of config.json, if any, is
\* installed as it is before the proxy is started.
LoadConfigFile ==
  /\ acceptLoops = 0
  /\ cfg.rpc_endpoint = None
  /\ \E text \in FileTexts : cfg' = set_rpc_endpoint(cfg, Some(text))
  /\ UNCHANGED << globalTor, torLock, alive, pc, req, mgr, route, resp, acceptLoops, counted, upstream, tunnel, shutdown, libs >>

(* ------------------------- global_enable_tor -------------------------- *)

\* Lines 26-33 with the stored manager running: routing is set again and
\* the current status returned.
already_running_never(tor) == FALSE

already_running(tor) == IsSome(tor) /\ get_status(Unwrap(tor)).is_running

EnableRunning(t) ==
  /\ pc[t] = "enable_tor"
  /\ torLock = NoHolder
  /\ already_running(globalTor)
  /\ cfg' = set_tor_routing(cfg, TRUE, get_status(Unwrap(globalTor)).socks_port)
  /\ Reply(t, 200, get_status(Unwrap(globalTor)))
  /\ Goto(t, "enable_return_running")
  /\ UNCHANGED << globalTor, torLock, alive, req, mgr, route, acceptLoops, counted, upstream, tunnel, shutdown, libs >>

\* Lines 35-41: no running manager, so a new one is made and started under
\* the lock.
EnableBegin(t) ==
  /\ pc[t] = "enable_tor"
  /\ torLock = NoHolder
  /\ ~ already_running(globalTor)
  /\ torLock' = t
  /\ mgr' = [ mgr EXCEPT ![t] = Some(NewManager) ]
  /\ Goto(t, "start")
  /\ UNCHANGED << cfg, globalTor, alive, req, route, resp, acceptLoops, counted, upstream, tunnel, shutdown, libs >>

\* TorManager::start lines 136-163 failing with `?` before a child exists;
\* the ports already found stay in the manager.
StartFailEarly(t) ==
  /\ pc[t] = "start"
  /\ \E why \in EarlyFailures, sp \in Ports, cp \in Ports :
       mgr' = [ mgr EXCEPT ![t] =
                  Some([ Unwrap(@) EXCEPT
                           !.socks_port =
                              IF why \in { "create_dir_all", "socks_port" } THEN 0 ELSE sp,
                           !.control_port =
                              IF why \in { "create_dir_all", "socks_port", "control_port" }
                                THEN 0 ELSE cp ]) ]
  /\ Goto(t, "start_err")
  /\ UNCHANGED << cfg, globalTor, torLock, alive, req, route, resp, acceptLoops, counted, upstream, tunnel, shutdown, libs >>

\* Lines 142-173: ports found, the relay spawned, is_running set, the child
\* stored.
StartSpawn(t) ==
  /\ pc[t] = "start"
  /\ free_pids # {}
  /\ \E sp \in Ports, cp \in Ports :
       /\ mgr' = [ mgr EXCEPT ![t] =
                     Some([ Unwrap(@) EXCEPT !.socks_port = sp, !.control_port = cp,
                                             !.is_running = TRUE, !.process = fresh_pid ]) ]
       /\ alive' = alive \cup { fresh_pid }
  /\ Goto(t, "bootstrap")
  /\ UNCHANGED << cfg, globalTor, torLock, req, route, resp, acceptLoops, counted, upstream, tunnel, shutdown, libs >>

\* Lines 181-197 and 219-222: one stdout line; a fatal line runs stop().
BootstrapLine(t) ==
  /\ pc[t] = "bootstrap"
  /\ \E line \in Lines :
       LET r == bootstrap_line(Unwrap(mgr[t]), line)
       IN  CASE r.result = "continue" ->
                  /\ mgr' = [ mgr EXCEPT ![t] = Some(r.mgr) ]
                  /\ UNCHANGED << pc, alive >>
             [] r.result = "ok" ->
                  /\ mgr' = [ mgr EXCEPT ![t] = Some(r.mgr) ]
                  /\ Goto(t, "connect_control")
                  /\ UNCHANGED alive
             [] r.result = "err" ->
                  /\ mgr' = [ mgr EXCEPT ![t] = Some(stop(r.mgr)) ]
                  /\ alive' = alive \ stop_kills(r.mgr)
                  /\ Goto(t, "start_err")
  /\ UNCHANGED << cfg, globalTor, torLock, req, route, resp, acceptLoops, counted, upstream, tunnel, shutdown, libs >>

\* Lines 198 and 219-222: stdout ends because the relay has exited.
BootstrapEof(t) ==
  /\ pc[t] = "bootstrap"
  /\ Unwrap(mgr[t]).process \notin alive
  /\ mgr' = [ mgr EXCEPT ![t] = Some(stop(Unwrap(@))) ]
  /\ alive' = alive \ stop_kills(Unwrap(mgr[t]))
  /\ Goto(t, "start_err")
  /\ UNCHANGED << cfg, globalTor, torLock, req, route, resp, acceptLoops, counted, upstream, tunnel, shutdown, libs >>

\* A start whose bootstrap loop is not under a timeout.
BootstrapTimeout_never(t) ==
  /\ FALSE
  /\ UNCHANGED vars

\* Lines 223-226: the 120 s timeout fires.
BootstrapTimeout(t) ==
  /\ pc[t] = "bootstrap"
  /\ mgr' = [ mgr EXCEPT ![t] = Some(stop(Unwrap(@))) ]
  /\ alive' = alive \ stop_kills(Unwrap(mgr[t]))
  /\ Goto(t, "start_err")
  /\ UNCHANGED << cfg, globalTor, torLock, req, route, resp, acceptLoops, counted, upstream, tunnel, shutdown, libs >>

\* Line 206, connect_control: on success (the relay is there to accept and
\* to answer 250) the stream is kept; any failure leaves start through `?`.
ConnectControl(t) ==
  /\ pc[t] = "connect_control"
  /\ \E outcome \in ControlOutcomes :
       IF outcome = "ok"
         THEN /\ Unwrap(mgr[t]).process \in alive
              /\ mgr' = [ mgr EXCEPT ![t] = Some([ Unwrap(@) EXCEPT !.control_stream = TRUE ]) ]
              /\ Goto(t, "detect_exit_ip")
         ELSE /\ UNCHANGED mgr
              /\ Goto(t, "start_err")
  /\ UNCHANGED << cfg, globalTor, torLock, alive, req, route, resp, acceptLoops, counted, upstream, tunnel, shutdown, libs >>

\* Line 208, detect_exit_ip: the address is cached when the probe answers.
DetectExitIp(t) ==
  /\ pc[t] = "detect_exit_ip"
  /\ \E ip \in { None } \cup { Some(a) : a \in ExitIps } :
       mgr' = [ mgr EXCEPT ![t] =
                  IF IsSome(ip) THEN Some([ Unwrap(@) EXCEPT !.exit_ip = ip ]) ELSE @ ]
  /\ Goto(t, "start_ok")
  /\ UNCHANGED << cfg, globalTor, torLock, alive, req, route, resp, acceptLoops, counted, upstream, tunnel, shutdown, libs >>

\* Lines 43-50: routing set, the manager stored (a replaced one is dropped),
\* the lock released.
EnableStore(t) ==
  /\ pc[t] = "start_ok"
  /\ cfg' = set_tor_routing(cfg, TRUE, socks_port(Unwrap(mgr[t])))
  /\ Reply(t, 200, get_status(Unwrap(mgr[t])))
  /\ alive' = alive \ (IF IsSome(globalTor) THEN drop_kills(Unwrap(globalTor)) ELSE {})
  /\ globalTor' = mgr[t]
  /\ mgr' = [ mgr EXCEPT ![t] = None ]
  /\ torLock' = NoHolder
  /\ Goto(t, "enable_return_started")
  /\ UNCHANGED << req, route, acceptLoops, counted, upstream, tunnel, shutdown, libs >>

\* Line 41: start's error leaves global_enable_tor; the local manager is
\* dropped and the lock released.
EnableFail(t) ==
  /\ pc[t] = "start_err"
  /\ alive' = alive \ drop_kills(Unwrap(mgr[t]))
  /\ mgr' = [ mgr EXCEPT ![t] = None ]
  /\ torLock' = NoHolder
  /\ Reply(t, 500, DefaultStatus)
  /\ Goto(t, "enable_return_err")
  /\ UNCHANGED << cfg, globalTor, req, route, acceptLoops, counted, upstream, tunnel, shutdown, libs >>

(* ------------------------- global_disable_tor ------------------------- *)

\* Lines 55-60: lock, stop the stored manager, clear the slot.
DisableStop(t) ==
  /\ pc[t] = "disable_tor"
  /\ torLock = NoHolder
  /\ torLock' = t
  /\ alive' = alive \ (IF IsSome(globalTor) THEN stop_kills(Unwrap(globalTor)) ELSE {})
  /\ globalTor' = None
  /\ Goto(t, "disable_routing")
  /\ UNCHANGED << cfg, req, mgr, route, resp, acceptLoops, counted, upstream, tunnel, shutdown, libs >>

\* Lines 62-63: routing cleared, the lock released.
DisableRouting_skips_routing(t) ==
  /\ pc[t] = "disable_routing"
  /\ torLock' = NoHolder
  /\ ReplyText(t, 200, "{\"status\":\"ok\",\"tor_enabled\":false}")
  /\ Goto(t, "disable_return")
  /\ UNCHANGED << cfg, globalTor, alive, req, mgr, route, acceptLoops, counted, upstream, tunnel, shutdown, libs >>

DisableRouting(t) ==
  /\ pc[t] = "disable_routing"
  /\ cfg' = set_tor_routing(cfg, FALSE, 0)
  /\ torLock' = NoHolder
  /\ ReplyText(t, 200, "{\"status\":\"ok\",\"tor_enabled\":false}")
  /\ Goto(t, "disable_return")
  /\ UNCHANGED << globalTor, alive, req, mgr, route, acceptLoops, counted, upstream, tunnel, shutdown, libs >>

(* ---------------------------- environment ----------------------------- *)

\* A relay subprocess exits on its own.
ChildExit ==
  /\ \E p \in alive : alive' = alive \ { p }
  /\ UNCHANGED << cfg, globalTor, torLock, pc, req, mgr, route, resp, acceptLoops, counted, upstream, tunnel, shutdown, libs >>

Next ==
  \/ StartProxyServer
  \/ ChildExit
  \/ \E t \in Conns :
       \/ Accept(t)
       \/ Respond(t)
       \/ ForwardRoute(t)
       \/ ForwardClient(t)
       \/ ForwardSend(t)
       \/ ConnectConfig(t)
       \/ ConnectDial(t)
       \/ \E d \in Dirs : TunnelEof(t, d)
       \/ HandlerReturn(t)
       \/ StatusConfig(t)
       \/ StatusTor(t)
       \/ UnknownControl(t)
       \/ EnableRunning(t)
       \/ EnableBegin(t)
       \/ StartFailEarly(t)
       \/ StartSpawn(t)
       \/ BootstrapLine(t)
       \/ BootstrapEof(t)
       \/ BootstrapTimeout(t)
       \/ ConnectControl(t)
       \/ DetectExitIp(t)
       \/ EnableStore(t)
       \/ EnableFail(t)
       \/ DisableStop(t)
       \/ DisableRouting(t)

Spec == Init /\ [][Next]_vars

\* The routing policy alone: JSON-RPC forwards against endpoint writes.
NextRouting ==
  \/ StartProxyServer
  \/ \E t \in Conns :
       \/ AcceptRouting(t)
       \/ Respond(t)
       \/ ForwardRoute(t)
       \/ ForwardClient(t)
       \/ ForwardSend(t)
       \/ SetRpc(t)
       \/ ClearRpc(t)

SpecRouting == Init /\ [][NextRouting]_vars

\* The HTTP path: every request line and every way a request can end,
\* every upstream answer, and the endpoint writes of the desktop shell.
NextHttp ==
  \/ StartProxyServer
  \/ LoadConfigFile
  \/ SetRpcEndpointCommand
  \/ \E t \in Conns :
       \/ AcceptHttp(t)
       \/ Respond(t)
       \/ HandlerReturn(t)
       \/ ForwardRoute(t)
       \/ ForwardClient(t)
       \/ ForwardSendAll(t)
       \/ StatusConfig(t)
       \/ StatusTor(t)
       \/ NewCircuit(t)
       \/ SetRpc(t)
       \/ ClearRpc(t)
       \/ UnknownControl(t)
       \/ Health(t)
       \/ TestRouting(t)
       \/ Config(t)
       \/ Options(t)
       \/ Decode(t)

SpecHttp == Init /\ [][NextHttp]_vars

\* The CONNECT path: the dial and the two copy loops of the tunnel.
NextTunnel ==
  \/ StartProxyServer
  \/ \E t \in Conns :
       \/ AcceptTunnel(t)
       \/ Respond(t)
       \/ HandlerReturn(t)
       \/ ConnectConfig(t)
       \/ ConnectDial(t)
       \/ \E d \in Dirs :
            \/ TunnelRead(t, d)
            \/ TunnelWrite(t, d)
            \/ TunnelEof(t, d)

SpecTunnel == Init /\ [][NextTunnel]_vars

(* ---------------- the stop sequence on any supervisor ----------------- *)

\* Every value a TorManager's fields can hold within the bounds.
ManagerStates ==
  [ process : { NoChild } \cup (1 .. MaxChildren), control_stream : BOOLEAN,
    socks_port : { 0 } \cup Ports, control_port : { 0 } \cup Ports,
    is_running : BOOLEAN, is_bootstrapped : BOOLEAN,
    bootstrap_progress : { 0, 50, 100 },
    exit_ip : { None } \cup { Some(a) : a \in ExitIps } ]

\* A supervisor in any state, its child running or not, on which one task
\* calls stop() twice.
InitStop ==
  /\ acceptLoops = 0
  /\ cfg = [ running |-> FALSE, tor_enabled |-> FALSE, tor_socks_port |-> 0,
             rpc_endpoint |-> None ]
  /\ globalTor \in { Some(m) : m \in ManagerStates }
  /\ alive \in SUBSET (1 .. MaxChildren)
  /\ \E t \in Conns :
       /\ torLock = t
       /\ pc = [ u \in Conns |-> IF u = t THEN "stop_first" ELSE "idle" ]
  /\ req = [ t \in Conns |-> NoReq ]
  /\ mgr = [ t \in Conns |-> None ]
  /\ route = [ t \in Conns |-> NoRoute ]
  /\ resp = [ t \in Conns |-> NoResp ]
  /\ counted = [ t \in Conns |-> NoCount ]
  /\ upstream = [ t \in Conns |-> NoUpstream ]
  /\ tunnel = [ t \in Conns |-> NoTunnel ]
  /\ shutdown = "none"
  /\ risk = NoRun /\ compact = NoRun /\ decoder = NoRun /\ builder = NoRun

\* manager.stop().await on the supervisor in the slot.
StopCall(t) ==
  /\ pc[t] \in { "stop_first", "stop_second" }
  /\ torLock = t
  /\ globalTor' = Some(stop(Unwrap(globalTor)))
  /\ alive' = alive \ stop_kills(Unwrap(globalTor))
  /\ Goto(t, IF pc[t] = "stop_first" THEN "stop_second" ELSE "stop_done")
  /\ UNCHANGED << cfg, torLock, req, mgr, route, resp, acceptLoops, counted, upstream, tunnel, shutdown, libs >>

NextStop == \E t \in Conns : StopCall(t)

SpecStop == InitStop /\ [][NextStop]_vars

(* ----------------------- accept loop and shutdown --------------------- *)

\* The requests of a server that is stopped and started while it serves: a
\* JSON-RPC post that arrives whole, with its body cut short or with a read
\* error, a set_rpc whose body is no JSON and a CONNECT.
ServeRequests ==
  [ line : { PostRoot }, headers : { << >> }, body : { RpcBody(JStr("getSlot")) },
    ends : { "complete", "short_body", "read_error" } ]
    \cup [ line : { Line("POST", << "control", "set_rpc" >>),
                    Line("CONNECT", << "example.com", "443" >>) },
           headers : { << >> }, body : { NotJson }, ends : { "complete" } ]

AcceptServe(t) == AcceptFrom(t, ServeRequests)

\* listener.accept() gives Err, lines 87-89: logged, the loop goes round.
AcceptError ==
  /\ acceptLoops > 0
  /\ UNCHANGED vars

\* stop_proxy_server, lines 104-110: the sender, if there is one, is taken
\* and fired; running is cleared at once.
take_and_send_nothing(tx) == tx

take_and_send(tx) == IF tx = "armed" THEN "sent" ELSE tx

StopProxyServer ==
  /\ shutdown' = take_and_send(shutdown)
  /\ cfg' = [ cfg EXCEPT !.running = FALSE ]
  /\ UNCHANGED << globalTor, torLock, alive, pc, req, mgr, route, resp, acceptLoops, counted, upstream, tunnel, libs >>

\* The shutdown branch of the loop's select!, lines 92-96, taken by a loop
\* whose receiver has completed (its sender was fired, or dropped): running
\* is cleared and the loop left; the listener is dropped with the task.
AcceptLoopExit ==
  /\ acceptLoops > (IF shutdown = "armed" THEN 1 ELSE 0)
  /\ acceptLoops' = acceptLoops - 1
  /\ shutdown' = IF shutdown = "armed" THEN "armed" ELSE "none"
  /\ cfg' = [ cfg EXCEPT !.running = FALSE ]
  /\ UNCHANGED << globalTor, torLock, alive, pc, req, mgr, route, resp, counted, upstream, tunnel, libs >>

\* The steps of the handler task of one connection.
HandlerStep(t) ==
  \/ Respond(t)
  \/ HandlerReturn(t)
  \/ ForwardRoute(t)
  \/ ForwardClient(t)
  \/ ForwardSend(t)
  \/ SetRpc(t)
  \/ ConnectConfig(t)
  \/ ConnectDial(t)
  \/ \E d \in Dirs : TunnelEof(t, d)

NextServe ==
  \/ StartProxyServer
  \/ StopProxyServer
  \/ AcceptLoopExit
  \/ AcceptError
  \/ \E t \in Conns :
       \/ AcceptServe(t)
       \/ HandlerStep(t)

SpecServe == Init /\ [][NextServe]_vars

\* The runtime polls every task that is ready: the accept loop sees the
\* signal, and each handler takes its next step.
SpecServeFair ==
  /\ Init /\ [][NextServe]_vars
  /\ WF_vars(AcceptLoopExit)
  /\ \A t \in Conns : WF_vars(HandlerStep(t))

(* ------------------- transaction_decoder.rs: risk --------------------- *)

\* The decoder and the SDK are libraries: their runs are taken with the
\* proxy and the supervisor as they are before anything is started.
ProxyAtRest ==
  /\ acceptLoops = 0
  /\ cfg = [ running |-> FALSE, tor_enabled |-> FALSE, tor_socks_port |-> 0,
             rpc_endpoint |-> None ]
  /\ globalTor = None
  /\ torLock = NoHolder
  /\ alive = {}
  /\ pc = [ t \in Conns |-> "idle" ]
  /\ req = [ t \in Conns |-> NoReq ]
  /\ mgr = [ t \in Conns |-> None ]
  /\ route = [ t \in Conns |-> NoRoute ]
  /\ resp = [ t \in Conns |-> NoResp ]
  /\ counted = [ t \in Conns |-> NoCount ]
  /\ upstream = [ t \in Conns |-> NoUpstream ]
  /\ tunnel = [ t \in Conns |-> NoTunnel ]
  /\ shutdown = "none"
proxy_vars ==
  << cfg, globalTor, torLock, alive, pc, req, mgr, route, resp, acceptLoops,
     counted, upstream, tunnel, shutdown >>

\* An amount of SOL (f64): whole SOL and the lamports beyond them.
LAMPORTS_PER_SOL == 1000000000
Sol(whole, lamports) == [ sol |-> whole, lamports |-> lamports ]
\* lamports as f64 / 1_000_000_000.0
sol_of_lamports(n) == Sol(n \div LAMPORTS_PER_SOL, n % LAMPORTS_PER_SOL)
\* total_sol_out += amount_sol
sol_add(a, b) ==
  Sol(a.sol + b.sol + (a.lamports + b.lamports) \div LAMPORTS_PER_SOL,
      (a.lamports + b.lamports) % LAMPORTS_PER_SOL)
\* total_sol_out > n.0
sol_gt(a, n) == a.sol > n \/ (a.sol = n /\ a.lamports > 0)

\* The lists graded: instructions of at most MaxInstructions details and at
\* most MaxWarnings warnings, with totals on both sides of the thresholds.
MaxInstructions == 4
MaxWarnings == 1
GradedDetails == { "Unknown", "TokenApprove", "SolTransfer" }
WarningLevels == { "Info", "Warning", "Danger" }
GradedInstructions ==
  UNION { [ 1 .. n -> [ details : [ type : GradedDetails ] ] ] : n \in 0 .. MaxInstructions }
GradedWarnings ==
  UNION { [ 1 .. n -> [ level : WarningLevels, title : { "Large Token Approval" } ] ] :
            n \in 0 .. MaxWarnings }
GradedTotals == { Sol(w, l) : w \in { 0, 1, 10, 11 }, l \in { 0, 1 } }

\* calculate_risk_level, lines 600-638.
calculate_risk_level_counts_first(instructions, warnings, total_sol_out) ==
  LET unknown_count ==
        Cardinality({ i \in DOMAIN instructions : instructions[i].details.type = "Unknown" })
      has_approval ==
        \E i \in DOMAIN instructions : instructions[i].details.type = "TokenApprove"
  IN  IF \E w \in DOMAIN warnings : warnings[w].level = "Danger" THEN "Critical"
      ELSE IF unknown_count > 3 THEN "Medium"
      ELSE IF sol_gt(total_sol_out, 10) THEN "High"
      ELSE IF sol_gt(total_sol_out, 1) THEN "Medium"
      ELSE IF has_approval THEN "Medium"
      ELSE "Low"

calculate_risk_level(instructions, warnings, total_sol_out) ==
  LET unknown_count ==
        Cardinality({ i \in DOMAIN instructions : instructions[i].details.type = "Unknown" })
      has_approval ==
        \E i \in DOMAIN instructions : instructions[i].details.type = "TokenApprove"
  IN  IF \E w \in DOMAIN warnings : warnings[w].level = "Danger" THEN "Critical"
      ELSE IF sol_gt(total_sol_out, 10) THEN "High"
      ELSE IF sol_gt(total_sol_out, 1) THEN "Medium"
      ELSE IF unknown_count > 3 THEN "Medium"
      ELSE IF has_approval THEN "Medium"
      ELSE "Low"

\* parse_message, lines 264-270: the warning pushed after the grading.
HighValueWarning == [ level |-> "Warning", title |-> "High Value Transaction" ]
with_high_value(warnings, total_sol_out) ==
  IF sol_gt(total_sol_out, 1) THEN Append(warnings, HighValueWarning) ELSE warnings

\* parse_message at the end of its instruction loop, with the lists and the
\* total it has gathered.
InitRisk ==
  /\ ProxyAtRest
  /\ compact = NoRun /\ decoder = NoRun /\ builder = NoRun
  /\ risk \in [ stage : { "gathered" }, instructions : GradedInstructions,
                warnings : GradedWarnings, total_sol_out : GradedTotals,
                risk_level : { "" } ]

\* Lines 258-271: the grade is computed, then the warning is pushed.
GradeRisk ==
  /\ risk.stage = "gathered"
  /\ risk' = [ risk EXCEPT
       !.stage = "graded",
       !.risk_level = calculate_risk_level(risk.instructions, risk.warnings,
                                           risk.total_sol_out),
       !.warnings = with_high_value(risk.warnings, risk.total_sol_out) ]
  /\ UNCHANGED << proxy_vars, compact, decoder, builder >>

NextRisk == GradeRisk

SpecRisk == InitRisk /\ [][NextRisk]_vars

(* --------------- transaction_decoder.rs: compact-u16 ------------------ *)

\* Result<T, String>
Ok(v) == [ ok |-> TRUE, value |-> v ]
Err(e) == [ ok |-> FALSE, error |-> e ]

\* bytes[offset] of a slice, offsets counted from 0.
at(bytes, offset) == bytes[offset + 1]

U16_MAX == 65535

\* read_compact_u16, lines 571-597, in u16 arithmetic: & 0x7f keeps the low
\* seven bits, << drops the bits shifted out, and | joins bit ranges that do
\* not overlap.
read_compact_u16_unmasked(bytes, offset) ==
  IF offset >= Len(bytes) THEN Err("Offset out of bounds")
  ELSE LET first == at(bytes, offset)
       IN  IF first < 128 THEN Ok([ value |-> first, len |-> 1 ])
           ELSE IF offset + 1 >= Len(bytes) THEN Err("Compact-u16 truncated")
           ELSE LET second == at(bytes, offset + 1)
                IN  IF second < 128
                      THEN Ok([ value |-> (first % 128) + (second * 128), len |-> 2 ])
                    ELSE IF offset + 2 >= Len(bytes) THEN Err("Compact-u16 truncated")
                    ELSE LET third == at(bytes, offset + 2)
                         IN  Ok([ value |-> ((first % 128) + (second * 128)
                                              + ((third * 16384) % (U16_MAX + 1)))
                                                % (U16_MAX + 1),
                                  len |-> 3 ])

read_compact_u16(bytes, offset) ==
  IF offset >= Len(bytes) THEN Err("Offset out of bounds")
  ELSE LET first == at(bytes, offset)
       IN  IF first < 128 THEN Ok([ value |-> first, len |-> 1 ])
           ELSE IF offset + 1 >= Len(bytes) THEN Err("Compact-u16 truncated")
           ELSE LET second == at(bytes, offset + 1)
                IN  IF second < 128
                      THEN Ok([ value |-> (first % 128) + (second * 128), len |-> 2 ])
                    ELSE IF offset + 2 >= Len(bytes) THEN Err("Compact-u16 truncated")
                    ELSE LET third == at(bytes, offset + 2)
                         IN  Ok([ value |-> (first % 128) + ((second % 128) * 128)
                                              + ((third * 16384) % (U16_MAX + 1)),
                                  len |-> 3 ])

\* The standard encoding of a value: seven bits to a byte, low bits first,
\* the high bit set on every byte but the last.
compact_u16(v) ==
  IF v < 128 THEN << v >>
  ELSE IF v < 16384 THEN << 128 + (v % 128), v \div 128 >>
  ELSE << 128 + (v % 128), 128 + ((v \div 128) % 128), v \div 16384 >>

\* One call of read_compact_u16 at offset 0, on the encoding of a value or on
\* that encoding without its last byte.
InitCompact ==
  /\ ProxyAtRest
  /\ risk = NoRun /\ decoder = NoRun /\ builder = NoRun
  /\ \E v \in 0 .. U16_MAX, cut \in { 0, 1 } :
       compact = [ stage |-> "encoded", value |-> v, cut |-> cut,
                   bytes |-> SubSeq(compact_u16(v), 1, Len(compact_u16(v)) - cut),
                   result |-> Err("") ]

ReadCompact ==
  /\ compact.stage = "encoded"
  /\ compact' = [ compact EXCEPT !.stage = "read",
                                 !.result = read_compact_u16(compact.bytes, 0) ]
  /\ UNCHANGED << proxy_vars, risk, decoder, builder >>

NextCompact == ReadCompact

SpecCompact == InitCompact /\ [][NextCompact]_vars

(* ------------------ transaction_decoder.rs: decode -------------------- *)

\* A text (&str, String) is the sequence of its characters.
Text(s) == [ i \in 1 .. Len(s) |-> SubSeq(s, i, i) ]

\* The alphabets of the two text encodings, and the value of each character.
BASE64_ALPHABET == Text("ABCDEFGHIJKLMNOPQRSTUVWXYZabcdefghijklmnopqrstuvwxyz0123456789+/")
BASE58_ALPHABET == Text("123456789ABCDEFGHJKLMNPQRSTUVWXYZabcdefghijkmnopqrstuvwxyz")
HEX_DIGITS == Text("0123456789abcdef")
values_of(alphabet) ==
  [ c \in { alphabet[i] : i \in 1 .. Len(alphabet) } |->
      (CHOOSE i \in 1 .. Len(alphabet) : alphabet[i] = c) - 1 ]
BASE64_VALUE == values_of(BASE64_ALPHABET)
BASE58_VALUE == values_of(BASE58_ALPHABET)
\* -1 for a character outside the alphabet
value_in(values, c) == IF c \in DOMAIN values THEN values[c] ELSE -1

\* BASE64.encode: three bytes to four characters, the last group padded
\* with '='.
base64_encode(bytes) ==
  LET byte(i) == IF i <= Len(bytes) THEN bytes[i] ELSE 0
  IN  [ k \in 1 .. (4 * ((Len(bytes) + 2) \div 3)) |->
          LET first == 3 * ((k - 1) \div 4)
              sextet == (k - 1) % 4
          IN  IF sextet = 0 THEN BASE64_ALPHABET[(byte(first + 1) \div 4) + 1]
              ELSE IF sextet = 1
                THEN BASE64_ALPHABET[((byte(first + 1) % 4) * 16)
                                       + (byte(first + 2) \div 16) + 1]
              ELSE IF sextet = 2
                THEN IF first + 2 > Len(bytes) THEN "="
                     ELSE BASE64_ALPHABET[((byte(first + 2) % 16) * 4)
                                            + (byte(first + 3) \div 64) + 1]
              ELSE IF first + 3 > Len(bytes) THEN "="
                   ELSE BASE64_ALPHABET[(byte(first + 3) % 64) + 1] ]

\* BASE64.decode of the STANDARD engine: groups of four characters of the
\* alphabet, padding required and only at the end, and no bits set beyond
\* the last whole byte.
base64_decode(encoded) ==
  LET n == Len(encoded)
      padding == IF n > 1 /\ encoded[n] = "="
                   THEN IF encoded[n - 1] = "=" THEN 2 ELSE 1
                   ELSE 0
      v(i) == value_in(BASE64_VALUE, encoded[i])
  IN  IF n % 4 # 0 THEN Err("Invalid input length")
      ELSE IF \E i \in 1 .. (n - padding) : v(i) < 0 THEN Err("Invalid symbol")
      ELSE IF \/ padding = 2 /\ v(n - 2) % 16 # 0
              \/ padding = 1 /\ v(n - 1) % 4 # 0
        THEN Err("Invalid last symbol")
      ELSE Ok([ i \in 1 .. ((3 * (n \div 4)) - padding) |->
                  LET first == 4 * ((i - 1) \div 3)
                      octet == (i - 1) % 3
                  IN  IF octet = 0 THEN (v(first + 1) * 4) + (v(first + 2) \div 16)
                      ELSE IF octet = 1
                        THEN ((v(first + 2) % 16) * 16) + (v(first + 3) \div 4)
                      ELSE ((v(first + 3) % 4) * 64) + v(first + 4) ])

\* A number kept as its digits in a base, lowest digit first: the number
\* times factor plus carry.
RECURSIVE mul_add(_, _, _, _, _)
mul_add(digits, i, factor, carry, base) ==
  IF i > Len(digits)
    THEN IF carry = 0 THEN digits
         ELSE mul_add(Append(digits, carry % base), i + 1, factor, carry \div base, base)
    ELSE LET x == (digits[i] * factor) + carry
         IN  mul_add([ digits EXCEPT ![i] = x % base ], i + 1, factor, x \div base, base)

\* The digits of a number, highest first, taken three at a time: the first
\* group holds the one or two digits left over.
grouped(digits, base) ==
  LET extra == Len(digits) % 3
      digit(i) == IF i < 1 THEN 0 ELSE digits[i]
  IN  [ k \in 1 .. ((Len(digits) + 2) \div 3) |->
          LET last == IF extra = 0 THEN 3 * k ELSE extra + (3 * (k - 1))
          IN  (((digit(last - 2) * base) + digit(last - 1)) * base) + digit(last) ]

\* The digits in the base to, lowest first, of the number whose groups of
\* three digits in another base are given, highest first; factor is that
\* base cubed.
RECURSIVE rebase(_, _, _, _)
rebase(groups, factor, to, digits) ==
  IF Len(groups) = 0 THEN digits
  ELSE LET next == mul_add(digits, 1, factor, Head(groups), to)
       IN  IF Len(next) >= 0 THEN rebase(Tail(groups), factor, to, next) ELSE next

reversed(s) == [ i \in 1 .. Len(s) |-> s[Len(s) + 1 - i] ]
leading(s, zero) == Cardinality({ i \in 1 .. Len(s) : \A j \in 1 .. i : s[j] = zero })

\* bs58::encode(bytes).into_string(): one '1' for every leading zero byte,
\* then the base-58 digits of the number the other bytes spell.
bs58_encode(bytes) ==
  LET zeros == leading(bytes, 0)
      digits == reversed(rebase(grouped(SubSeq(bytes, zeros + 1, Len(bytes)), 256),
                                16777216, 58, << >>))
  IN  [ i \in 1 .. zeros |-> "1" ]
        \o [ i \in 1 .. Len(digits) |-> BASE58_ALPHABET[digits[i] + 1] ]

\* bs58::decode(text).into_vec(): the inverse, an error on a character
\* outside the alphabet.
bs58_decode(encoded) ==
  LET v == [ i \in 1 .. Len(encoded) |-> value_in(BASE58_VALUE, encoded[i]) ]
      zeros == leading(v, 0)
  IN  IF \E i \in 1 .. Len(encoded) : v[i] < 0 THEN Err("Invalid character")
      ELSE Ok([ i \in 1 .. zeros |-> 0 ]
              \o reversed(rebase(grouped(SubSeq(v, zeros + 1, Len(v)), 58),
                                 195112, 256, << >>)))

\* hex::encode, lines 702-706.
hex_encode(data) ==
  [ i \in 1 .. (2 * Len(data)) |->
      IF i % 2 = 1 THEN HEX_DIGITS[(data[(i + 1) \div 2] \div 16) + 1]
                   ELSE HEX_DIGITS[(data[i \div 2] % 16) + 1] ]

\* Well-known program ids, lines 8-13.
SYSTEM_PROGRAM == Text("11111111111111111111111111111111")
TOKEN_PROGRAM == Text("TokenkegQfeZyiNwAJbNbGKPFXCWuBvf9Ss623VQ5DA")
TOKEN_2022_PROGRAM == Text("TokenzQdBNbLqP5VEhdkAS6EPFLC1PHnBqCXEpPxuEb")
ASSOCIATED_TOKEN_PROGRAM == Text("ATokenGPvbdGVxr1b2hvZbsiqW5xWH25efTNsLJA8knL")
MEMO_PROGRAM == Text("MemoSq4gqABAXKb96qnH8TysNcWxMyWCqXgDLGmfcHr")
COMPUTE_BUDGET_PROGRAM == Text("ComputeBudget111111111111111111111111111111")
\* SUSPICIOUS_PROGRAMS, lines 16-18.
SUSPICIOUS_PROGRAMS == { }

SIGNATURE_LEN == 64
PUBKEY_LEN == 32
LARGE_APPROVAL == 1000000000

\* A u64 or u32 read from little-endian bytes is kept as those bytes, lowest
\* first: the values exceed the integers of the model.
U64_MAX == [ i \in 1 .. 8 |-> 255 ]
RECURSIVE le_value(_)
le_value(bytes) == IF Len(bytes) = 0 THEN 0 ELSE Head(bytes) + (256 * le_value(Tail(bytes)))
\* value > n, for n below 2^31
le_gt(bytes, n) ==
  \/ \E i \in 5 .. Len(bytes) : bytes[i] # 0
  \/ Len(bytes) >= 4 /\ bytes[4] >= 128
  \/ le_value(bytes) > n
\* value == n, for n below 2^24
le_is(bytes, n) ==
  /\ \A i \in 4 .. Len(bytes) : bytes[i] = 0
  /\ le_value(SubSeq(bytes, 1, IF Len(bytes) < 3 THEN Len(bytes) ELSE 3)) = n
\* u64::from_le_bytes(data[from..to]) when data.len() >= to, and 0 otherwise
le_field(data, from, to) ==
  IF Len(data) >= to THEN SubSeq(data, from + 1, to) ELSE [ i \in 1 .. (to - from) |-> 0 ]

\* String::from_utf8_lossy on bytes that are printable ASCII (32 to 126,
\* without the grave accent, 96).
ASCII_BELOW_GRAVE ==
  Text(" !\"#$%&'()*+,-./0123456789:;<=>?@ABCDEFGHIJKLMNOPQRSTUVWXYZ[\\]^_")
ASCII_ABOVE_GRAVE == Text("abcdefghijklmnopqrstuvwxyz{|}~")
from_utf8_lossy(data) ==
  [ i \in 1 .. Len(data) |->
      IF data[i] < 96 THEN ASCII_BELOW_GRAVE[data[i] - 31]
                      ELSE ASCII_ABOVE_GRAVE[data[i] - 96] ]

\* shorten_address, lines 693-699.
shorten_address(addr) ==
  IF Len(addr) > 12
    THEN SubSeq(addr, 1, 4) \o Text("...") \o SubSeq(addr, Len(addr) - 3, Len(addr))
    ELSE addr

\* slice.get(i) ... unwrap_or_else(|| "Unknown"), positions counted from 0.
UNKNOWN == Text("Unknown")
key_or_unknown(account_keys, i) ==
  IF i < Len(account_keys) THEN account_keys[i + 1] ELSE UNKNOWN

\* The closure get_account, lines 290-296.
get_account(account_indices, account_keys, idx) ==
  IF idx < Len(account_indices)
    THEN key_or_unknown(account_keys, account_indices[idx + 1])
    ELSE UNKNOWN

\* account_indices.iter().filter_map(|&i| account_keys.get(i).cloned())
RECURSIVE filter_map_keys(_, _)
filter_map_keys(account_indices, account_keys) ==
  IF Len(account_indices) = 0 THEN << >>
  ELSE (IF Head(account_indices) < Len(account_keys)
          THEN << account_keys[Head(account_indices) + 1] >> ELSE << >>)
       \o filter_map_keys(Tail(account_indices), account_keys)

\* A DecodedInstruction: program, program_id and details; the action is a
\* display text of the details.
Instruction(program, program_id, details) ==
  [ program |-> program, program_id |-> program_id, details |-> details ]
UnknownDetails(data_preview, accounts) ==
  [ type |-> "Unknown", data_preview |-> data_preview, accounts |-> accounts ]

\* decode_system_instruction, lines 336-406.
decode_system_instruction(data, account_indices, account_keys) ==
  LET account(idx) == get_account(account_indices, account_keys, idx)
      instruction_type == IF Len(data) >= 4 THEN SubSeq(data, 1, 4) ELSE << data[1] >>
  IN  IF Len(data) = 0
        THEN Instruction(Text("System"), SYSTEM_PROGRAM, UnknownDetails(Text(""), << >>))
      ELSE IF le_is(instruction_type, 2)
        THEN Instruction(Text("System"), SYSTEM_PROGRAM,
               [ type |-> "SolTransfer", from |-> account(0), to |-> account(1),
                 amount_lamports |-> le_field(data, 4, 12),
                 amount_sol |-> sol_of_lamports(le_value(le_field(data, 4, 12))) ])
      ELSE IF le_is(instruction_type, 0)
        THEN Instruction(Text("System"), SYSTEM_PROGRAM,
               UnknownDetails(hex_encode(data), << account(0), account(1) >>))
      ELSE IF le_is(instruction_type, 1)
        THEN Instruction(Text("System"), SYSTEM_PROGRAM,
               UnknownDetails(hex_encode(data), << account(0) >>))
      ELSE Instruction(Text("System"), SYSTEM_PROGRAM, UnknownDetails(hex_encode(data), << >>))

\* decode_token_instruction, lines 409-514.
decode_token_instruction(data, account_indices, account_keys, program_id) ==
  LET account(idx) == get_account(account_indices, account_keys, idx)
      amount == le_field(data, 1, 9)
  IN  IF Len(data) = 0 THEN Instruction(Text("Token"), program_id, UnknownDetails(Text(""), << >>))
      ELSE IF data[1] = 3
        THEN Instruction(Text("Token"), program_id,
               [ type |-> "TokenTransfer", from |-> account(0), to |-> account(1),
                 amount |-> amount, decimals |-> << >> ])
      ELSE IF data[1] = 4
        THEN Instruction(Text("Token"), program_id,
               [ type |-> "TokenApprove", source |-> account(0), delegate |-> account(1),
                 amount |-> amount ])
      ELSE IF data[1] = 5
        THEN Instruction(Text("Token"), program_id,
               [ type |-> "TokenRevoke", source |-> account(0) ])
      ELSE IF data[1] = 12
        THEN Instruction(Text("Token"), program_id,
               [ type |-> "TokenTransfer", from |-> account(0), to |-> account(2),
                 amount |-> amount,
                 decimals |-> IF Len(data) >= 10 THEN << data[10] >> ELSE << >> ])
      ELSE Instruction(Text("Token"), program_id, UnknownDetails(hex_encode(data), << >>))

\* decode_compute_budget_instruction, lines 517-569.
decode_compute_budget_instruction(data) ==
  IF Len(data) = 0
    THEN Instruction(Text("Compute Budget"), COMPUTE_BUDGET_PROGRAM, UnknownDetails(Text(""), << >>))
  ELSE IF data[1] = 2
    THEN Instruction(Text("Compute Budget"), COMPUTE_BUDGET_PROGRAM,
           [ type |-> "SetComputeLimit", units |-> le_field(data, 1, 5) ])
  ELSE IF data[1] = 3
    THEN Instruction(Text("Compute Budget"), COMPUTE_BUDGET_PROGRAM,
           [ type |-> "SetComputePrice", micro_lamports |-> le_field(data, 1, 9) ])
  ELSE Instruction(Text("Compute Budget"), COMPUTE_BUDGET_PROGRAM,
         UnknownDetails(hex_encode(data), << >>))

\* decode_instruction, lines 284-333.
decode_instruction(program_id, account_indices, data, account_keys) ==
  IF program_id = SYSTEM_PROGRAM
    THEN decode_system_instruction(data, account_indices, account_keys)
  ELSE IF program_id = TOKEN_PROGRAM \/ program_id = TOKEN_2022_PROGRAM
    THEN decode_token_instruction(data, account_indices, account_keys, program_id)
  ELSE IF program_id = COMPUTE_BUDGET_PROGRAM
    THEN decode_compute_budget_instruction(data)
  ELSE IF program_id = MEMO_PROGRAM
    THEN Instruction(Text("Memo"), program_id,
           UnknownDetails(from_utf8_lossy(data),
                          filter_map_keys(account_indices, account_keys)))
  ELSE Instruction(shorten_address(program_id), program_id,
         UnknownDetails(IF Len(data) > 32 THEN hex_encode(SubSeq(data, 1, 32)) \o Text("...")
                                           ELSE hex_encode(data),
                        filter_map_keys(account_indices, account_keys)))

\* The warnings one decoded instruction adds, lines 229-253.
instruction_warnings(program_id, decoded) ==
  (IF program_id \in SUSPICIOUS_PROGRAMS
     THEN << [ level |-> "Danger", title |-> "Known Malicious Program" ] >> ELSE << >>)
  \o (IF decoded.details.type # "TokenApprove" THEN << >>
      ELSE IF decoded.details.amount = U64_MAX
        THEN << [ level |-> "Danger", title |-> "Unlimited Token Approval" ] >>
      ELSE IF le_gt(decoded.details.amount, LARGE_APPROVAL)
        THEN << [ level |-> "Warning", title |-> "Large Token Approval" ] >>
      ELSE << >>)

\* The account keys of a message, lines 154-162.
RECURSIVE read_account_keys(_, _, _, _)
read_account_keys(bytes, offset, remaining, account_keys) ==
  IF remaining = 0 THEN Ok([ account_keys |-> account_keys, offset |-> offset ])
  ELSE IF offset + PUBKEY_LEN > Len(bytes) THEN Err("Account keys truncated")
  ELSE read_account_keys(bytes, offset + PUBKEY_LEN, remaining - 1,
         Append(account_keys, bs58_encode(SubSeq(bytes, offset + 1, offset + PUBKEY_LEN))))

\* The instruction loop of parse_message, lines 174-256.
RECURSIVE read_instructions(_, _, _, _, _)
read_instructions(bytes, offset, remaining, account_keys, read) ==
  IF remaining = 0 \/ offset >= Len(bytes) THEN Ok(read)
  ELSE LET program_id == key_or_unknown(account_keys, at(bytes, offset))
           num_accounts == read_compact_u16(bytes, offset + 1)
       IN  IF ~num_accounts.ok THEN num_accounts
           ELSE LET first == offset + 1 + num_accounts.value.len
                    left == Len(bytes) - first
                    pushed == IF num_accounts.value.value <= left
                                THEN num_accounts.value.value
                                ELSE IF left > 0 THEN left ELSE 0
                    account_indices == [ i \in 1 .. pushed |-> at(bytes, first + i - 1) ]
                    data_len == read_compact_u16(bytes, first + pushed)
                IN  IF ~data_len.ok THEN data_len
                    ELSE LET start == first + pushed + data_len.value.len
                             instruction_data ==
                               IF start + data_len.value.value <= Len(bytes)
                                 THEN SubSeq(bytes, start + 1, start + data_len.value.value)
                                 ELSE << >>
                             decoded == decode_instruction(program_id, account_indices,
                                                           instruction_data, account_keys)
                         IN  read_instructions(bytes, start + data_len.value.value,
                               remaining - 1, account_keys,
                               [ instructions |-> Append(read.instructions, decoded),
                                 warnings |-> read.warnings
                                                \o instruction_warnings(program_id, decoded),
                                 total_sol_out |->
                                   IF decoded.details.type = "SolTransfer"
                                     THEN sol_add(read.total_sol_out,
                                                  decoded.details.amount_sol)
                                     ELSE read.total_sol_out ])

\* parse_message, lines 134-281; the summary is a display text of the
\* instructions and the total.
parse_message(bytes) ==
  IF Len(bytes) = 0 THEN Err("Empty message")
  ELSE IF Len(bytes) < 3 THEN Err("Message header too short")
  ELSE LET num_accounts == read_compact_u16(bytes, 3)
       IN  IF ~num_accounts.ok THEN num_accounts
           ELSE LET keys == read_account_keys(bytes, 3 + num_accounts.value.len,
                                              num_accounts.value.value, << >>)
                IN  IF ~keys.ok THEN keys
                    ELSE IF keys.value.offset + 32 > Len(bytes)
                      THEN Err("Recent blockhash truncated")
                    ELSE LET num_instructions ==
                               read_compact_u16(bytes, keys.value.offset + 32)
                         IN  IF ~num_instructions.ok THEN num_instructions
                             ELSE LET read == read_instructions(bytes,
                                        keys.value.offset + 32 + num_instructions.value.len,
                                        num_instructions.value.value,
                                        keys.value.account_keys,
                                        [ instructions |-> << >>, warnings |-> << >>,
                                          total_sol_out |-> Sol(0, 0) ])
                                  IN  IF ~read.ok THEN read
                                      ELSE Ok([
                                        instructions |-> read.value.instructions,
                                        warnings |-> with_high_value(read.value.warnings,
                                                       read.value.total_sol_out),
                                        accounts_involved |-> keys.value.account_keys,
                                        estimated_cost |-> << read.value.total_sol_out >>,
                                        risk_level |-> calculate_risk_level(
                                                         read.value.instructions,
                                                         read.value.warnings,
                                                         read.value.total_sol_out) ])

\* parse_transaction_bytes, lines 110-131.
parse_transaction_bytes_accepts_short(bytes) ==
  IF Len(bytes) < 4
    THEN Ok([ instructions |-> << >>, warnings |-> << >>, accounts_involved |-> << >>,
              estimated_cost |-> << >>, risk_level |-> "Low" ])
  ELSE LET num_signatures == read_compact_u16(bytes, 0)
       IN  IF ~num_signatures.ok THEN num_signatures
           ELSE LET offset == num_signatures.value.len
                                + (num_signatures.value.value * SIGNATURE_LEN)
                IN  IF offset >= Len(bytes) THEN Err("Transaction truncated after signatures")
                    ELSE parse_message(SubSeq(bytes, offset + 1, Len(bytes)))

parse_transaction_bytes(bytes) ==
  IF Len(bytes) < 4 THEN Err("Transaction too short")
  ELSE LET num_signatures == read_compact_u16(bytes, 0)
       IN  IF ~num_signatures.ok THEN num_signatures
           ELSE LET offset == num_signatures.value.len
                                + (num_signatures.value.value * SIGNATURE_LEN)
                IN  IF offset >= Len(bytes) THEN Err("Transaction truncated after signatures")
                    ELSE parse_message(SubSeq(bytes, offset + 1, Len(bytes)))

\* decode_transaction, lines 96-107: base64 first, then base58.
tx_bytes(encoded) ==
  IF base64_decode(encoded).ok THEN base64_decode(encoded)
  ELSE IF bs58_decode(encoded).ok THEN bs58_decode(encoded)
  ELSE Err("Failed to decode transaction: not valid base64 or base58")

decode_transaction(encoded) ==
  IF tx_bytes(encoded).ok THEN parse_transaction_bytes(tx_bytes(encoded).value)
  ELSE tx_bytes(encoded)

\* The transactions decoded.  A transaction is its number of signatures, its
\* account keys and its instructions; transaction_bytes is its wire form:
\* compact-u16 counts, 64-byte signatures, a three-byte header, 32-byte keys
\* and a 32-byte recent blockhash.  The transactions have at most three
\* account keys, so the index 9 is out of range in each of them.
MaxSignatures == 1
MaxShortLen == 7
MaxBase58Len == 16
key_bytes(address) == bs58_decode(address).value
le_bytes(n, width) == [ i \in 1 .. width |-> IF i = 1 THEN n % 256
                                              ELSE IF i = 2 THEN (n \div 256) % 256
                                              ELSE IF i = 3 THEN (n \div 65536) % 256
                                              ELSE IF i = 4 THEN n \div 16777216
                                              ELSE 0 ]
RECURSIVE flatten(_)
flatten(lists) == IF Len(lists) = 0 THEN << >> ELSE Head(lists) \o flatten(Tail(lists))

TransferData == << 2, 0, 0, 0 >> \o le_bytes(1500000000, 8)
ApproveData == << 4 >> \o le_bytes(2000000000, 8)
MemoData == << 104, 105 >>

Ins(program_id_index, account_indices, data) ==
  [ program_id_index |-> program_id_index, account_indices |-> account_indices,
    data |-> data ]
Tx(signatures, programs, instructions) ==
  [ signatures |-> signatures, account_keys |-> << ASSOCIATED_TOKEN_PROGRAM >> \o programs,
    instructions |-> instructions ]
NoTx == Tx(0, << >>, << >>)

Transactions ==
  { Tx(s, << SYSTEM_PROGRAM >>, << Ins(1, << 0, 0 >>, TransferData) >>) :
      s \in 0 .. MaxSignatures }
  \cup { Tx(0, << SYSTEM_PROGRAM >>, << Ins(1, << 0, 9 >>, TransferData) >>),
         Tx(0, << TOKEN_PROGRAM >>, << Ins(1, << 0 >>, ApproveData) >>),
         Tx(0, << MEMO_PROGRAM >>, << Ins(1, << 0, 9 >>, MemoData) >>),
         Tx(0, << >>, << Ins(0, << 9, 0 >>, MemoData) >>),
         Tx(0, << >>, << Ins(9, << 0 >>, << >>) >>),
         Tx(0, << SYSTEM_PROGRAM, MEMO_PROGRAM >>,
            << Ins(1, << 0, 0 >>, TransferData), Ins(2, << 0 >>, MemoData) >>) }

instruction_bytes(ins) ==
  << ins.program_id_index >>
    \o compact_u16(Len(ins.account_indices)) \o ins.account_indices
    \o compact_u16(Len(ins.data)) \o ins.data

transaction_bytes(tx) ==
  compact_u16(tx.signatures) \o [ i \in 1 .. (tx.signatures * SIGNATURE_LEN) |-> 1 ]
    \o << tx.signatures, 0, 1 >>
    \o compact_u16(Len(tx.account_keys))
    \o flatten([ i \in 1 .. Len(tx.account_keys) |-> key_bytes(tx.account_keys[i]) ])
    \o [ i \in 1 .. PUBKEY_LEN |-> 7 ]
    \o compact_u16(Len(tx.instructions))
    \o flatten([ i \in 1 .. Len(tx.instructions) |-> instruction_bytes(tx.instructions[i]) ])

\* Byte strings of at most MaxShortLen bytes, and texts in neither alphabet.
ShortBytes == UNION { [ 1 .. n -> { 0, 3 } ] : n \in 0 .. MaxShortLen }
InvalidTexts == { Text("0"), Text("!!!!") }

\* The text of a byte string in an encoding; base58 texts are made of byte
\* strings of at most MaxBase58Len bytes.
encode(bytes, encoding) ==
  IF encoding = "base64" THEN base64_encode(bytes) ELSE bs58_encode(bytes)
encodings(bytes) ==
  IF Len(bytes) <= MaxBase58Len THEN { "base64", "base58" } ELSE { "base64" }

Encoded(tx, full, cut, encoding, text) ==
  [ stage |-> "encoded", tx |-> tx, full |-> full, cut |-> cut,
    bytes |-> SubSeq(full, 1, Len(full) - cut), encoding |-> encoding,
    encoded |-> text, result |-> Err("") ]

\* One call of decode_transaction: on the base64 or the base58 text of a
\* byte string (a transaction's wire form, or what is left of it when its
\* last cut bytes are missing, or a short byte string), or on a text that
\* is neither.
InitDecode ==
  /\ ProxyAtRest
  /\ risk = NoRun /\ compact = NoRun /\ builder = NoRun
  /\ \/ \E tx \in Transactions :
          LET full == transaction_bytes(tx)
          IN  \E cut \in 0 .. Len(full) :
                \E encoding \in encodings(SubSeq(full, 1, Len(full) - cut)) :
                  decoder = Encoded(tx, full, cut, encoding,
                                    encode(SubSeq(full, 1, Len(full) - cut), encoding))
     \/ \E bytes \in ShortBytes :
          \E encoding \in encodings(bytes) :
            decoder = Encoded(NoTx, bytes, 0, encoding, encode(bytes, encoding))
     \/ \E text \in InvalidTexts : decoder = Encoded(NoTx, << >>, 0, "none", text)

DecodeTransaction ==
  /\ decoder.stage = "encoded"
  /\ decoder' = [ decoder EXCEPT !.stage = "decoded",
                                 !.result = decode_transaction(decoder.encoded) ]
  /\ UNCHANGED << proxy_vars, risk, compact, builder >>

NextDecode == DecodeTransaction

SpecDecode == InitDecode /\ [][NextDecode]_vars

(* ------------------ sdk/rust/src/lib.rs: ConfigBuilder ---------------- *)

\* The calls made on one builder are at most MaxCalls, with these arguments.
MaxCalls == 3
BuilderUrls == { "https://example.com", "https://fallback.com" }
BuilderPorts == { 0, 9000, 65535 }
ApiKeys == { "test-key" }
Chains == { "Solana", "Ethereum", "Polygon", "Arbitrum", "Optimism", "Base" }

DEFAULT_PRIMARY_RPC == "https://api.mainnet-beta.solana.com"
DEFAULT_PROXY_PORT == 8899

\* ConfigBuilder::default(), lines 60-67; alert_handler holds whether a
\* handler is set.
ConfigBuilderDefault ==
  [ primary_rpc |-> None, fallback_rpcs |-> << >>, proxy_port |-> 0,
    pinned_endpoints |-> << >>, alert_handler |-> FALSE ]

\* Config::builder(), lines 54-56: a fresh builder; calls records the calls
\* made on it, in order.
InitBuilder ==
  /\ ProxyAtRest
  /\ risk = NoRun /\ compact = NoRun /\ decoder = NoRun
  /\ builder = [ stage |-> "building", self |-> ConfigBuilderDefault, calls |-> << >> ]

\* A call of a builder method: the builder it returns, and the call recorded.
Called(self, call) ==
  /\ builder.stage = "building"
  /\ Len(builder.calls) < MaxCalls
  /\ builder' = [ builder EXCEPT !.self = self, !.calls = Append(@, call) ]
  /\ UNCHANGED << proxy_vars, risk, compact, decoder >>

\* primary_rpc, lines 70-73.
PrimaryRpc ==
  \E url \in BuilderUrls :
    Called([ builder.self EXCEPT !.primary_rpc = Some(url) ],
           [ method |-> "primary_rpc", url |-> url ])

\* add_fallback, lines 75-78.
AddFallback ==
  \E url \in BuilderUrls :
    Called([ builder.self EXCEPT !.fallback_rpcs = Append(@, url) ],
           [ method |-> "add_fallback", url |-> url ])

\* proxy_port, lines 80-83.
ProxyPort ==
  \E port \in BuilderPorts :
    Called([ builder.self EXCEPT !.proxy_port = port ],
           [ method |-> "proxy_port", port |-> port ])

\* pin_endpoint, lines 85-88.
PinEndpoint ==
  Called([ builder.self EXCEPT !.pinned_endpoints = Append(@, "example.com") ],
         [ method |-> "pin_endpoint" ])

\* on_alert, lines 90-96.
OnAlert ==
  Called([ builder.self EXCEPT !.alert_handler = TRUE ], [ method |-> "on_alert" ])

\* use_helius, lines 99-106.
UseHelius ==
  \E api_key \in ApiKeys :
    Called([ builder.self EXCEPT
               !.primary_rpc = Some("https://mainnet.helius-rpc.com/?api-key=" \o api_key),
               !.pinned_endpoints = Append(@, "mainnet.helius-rpc.com") ],
           [ method |-> "use_helius", api_key |-> api_key ])

\* use_alchemy, lines 109-120.
alchemy_url(api_key, chain) ==
  "https://"
    \o (CASE chain = "Solana" -> "solana"
           [] chain = "Ethereum" -> "eth"
           [] chain = "Polygon" -> "polygon"
           [] chain = "Arbitrum" -> "arb"
           [] chain = "Optimism" -> "opt"
           [] chain = "Base" -> "base")
    \o "-mainnet.g.alchemy.com/v2/" \o api_key
UseAlchemy ==
  \E api_key \in ApiKeys, chain \in Chains :
    Called([ builder.self EXCEPT !.primary_rpc = Some(alchemy_url(api_key, chain)) ],
           [ method |-> "use_alchemy", api_key |-> api_key, chain |-> chain ])

\* build, lines 122-132.
build_keeps_port(self) ==
  [ primary_rpc |-> IF IsSome(self.primary_rpc) THEN Unwrap(self.primary_rpc)
                                                ELSE DEFAULT_PRIMARY_RPC,
    fallback_rpcs |-> self.fallback_rpcs,
    proxy_port |-> self.proxy_port,
    pinned_endpoints |-> self.pinned_endpoints,
    alert_handler |-> self.alert_handler ]

build(self) ==
  [ primary_rpc |-> IF IsSome(self.primary_rpc) THEN Unwrap(self.primary_rpc)
                                                ELSE DEFAULT_PRIMARY_RPC,
    fallback_rpcs |-> self.fallback_rpcs,
    proxy_port |-> IF self.proxy_port = 0 THEN DEFAULT_PROXY_PORT ELSE self.proxy_port,
    pinned_endpoints |-> self.pinned_endpoints,
    alert_handler |-> self.alert_handler ]

Build ==
  /\ builder.stage = "building"
  /\ builder' = [ stage |-> "built", config |-> build(builder.self),
                  calls |-> builder.calls ]
  /\ UNCHANGED << proxy_vars, risk, compact, decoder >>

NextBuilder ==
  \/ PrimaryRpc \/ AddFallback \/ ProxyPort \/ PinEndpoint \/ OnAlert
  \/ UseHelius \/ UseAlchemy \/ Build

SpecBuilder == InitBuilder /\ [][NextBuilder]_vars

(* ============================== claims ================================ *)

JitoUrl == "https://mainnet.block-engine.jito.wtf/api/v1/bundles"
SolanaUrl == "https://api.mainnet-beta.solana.com"

\* The request body names one of the five bundle methods.
NamesJitoMethod(body) ==
  /\ body.valid
  /\ body.method.t = "str"
  /\ body.method.s \in { "getTipAccounts", "sendBundle", "getBundleStatuses",
                         "simulateBundle", "getInflightBundleStatuses" }

\* Task t chooses its upstream target in this step.
RouteStep(t) == pc[t] = "forward_route" /\ pc'[t] = "forward_client"

\* C1: a forward whose method is a Jito bundle method targets the Jito block
\* engine whatever the endpoint and the X-Target-URL header are; any other
\* forward, with an upstream endpoint set, targets that endpoint whatever
\* the header is.
C1_JitoThenEndpoint ==
  [][ \A t \in Conns :
        RouteStep(t) =>
          /\ NamesJitoMethod(req[t].body) => route'[t].target = JitoUrl
          /\ (~ NamesJitoMethod(req[t].body) /\ cfg.rpc_endpoint # None)
               => route'[t].target = cfg.rpc_endpoint[1] ]_vars

\* A Jito method routed to the block engine although an endpoint is set and
\* the request carries a header, beside a getSlot routed to the endpoint
\* although it carries a header.
C1_Witness ==
  \E t, u \in Conns :
    /\ pc[t] = "forward_client" /\ pc[u] = "forward_client"
    /\ req[t].body.method = JStr("sendBundle")
    /\ req[u].body.method = JStr("getSlot")
    /\ req[t].header = << "https://other" >> /\ req[u].header = << "https://other" >>
    /\ cfg.rpc_endpoint = << "https://ep.example" >>
    /\ route[t].target = JitoUrl
    /\ route[u].target = "https://ep.example"

\* C2: a non-Jito forward with no upstream endpoint targets the X-Target-URL
\* value exactly when the header is present and non-empty, and the default
\* Solana RPC when the header is absent or empty.
C2_HeaderOrDefault ==
  [][ \A t \in Conns :
        (RouteStep(t) /\ ~ NamesJitoMethod(req[t].body) /\ cfg.rpc_endpoint = None)
          => route'[t].target =
               IF req[t].header # None /\ req[t].header[1] # ""
                 THEN req[t].header[1]
                 ELSE SolanaUrl ]_vars

\* Task t chooses its egress in this step.
EgressStep(t) ==
  \/ pc[t] = "forward_client" /\ pc'[t] = "forward_send"
  \/ pc[t] = "connect_config" /\ pc'[t] = "connect_dial"

\* C3: a forward and a CONNECT tunnel go out through the relay's SOCKS port
\* exactly when the config the handler reads has tor_enabled and a non-zero
\* tor_socks_port; otherwise they dial directly.
C3_RelayEgress ==
  [][ \A t \in Conns :
        EgressStep(t) =>
          IF cfg.tor_enabled /\ cfg.tor_socks_port > 0
            THEN route'[t].via = "socks" /\ route'[t].port = cfg.tor_socks_port
            ELSE route'[t].via = "direct" ]_vars

\* A forward about to go through the relay beside a tunnel about to dial
\* directly.
C3_Witness ==
  \E t, u \in Conns :
    /\ pc[t] = "forward_send" /\ route[t].via = "socks" /\ route[t].port > 0
    /\ pc[u] = "connect_dial" /\ route[u].via = "direct"

\* C4: at most one relay subprocess is alive at any time, and one is spawned
\* only when none is alive.
C4_OneSubprocess ==
  [][ (alive' \ alive # {}) => (alive = {} /\ Cardinality(alive') = 1) ]_vars

\* One enable_tor is bootstrapping its subprocess while another control
\* request waits for the supervisor mutex.
C4_Witness ==
  \E t, u \in Conns :
    /\ pc[t] = "bootstrap" /\ alive = { mgr[t][1].process }
    /\ pc[u] \in { "enable_tor", "disable_tor" }

\* C5: an enable_tor that finds a bootstrapped supervisor spawns nothing,
\* leaves the supervisor and its ports as they are, answers with its status
\* and sets relay routing to its SOCKS port.
C5_EnableIdempotent ==
  [][ \A t \in Conns :
        ( /\ pc[t] = "enable_tor" /\ pc'[t] # "enable_tor"
          /\ globalTor # None /\ globalTor[1].is_bootstrapped )
        => /\ alive' = alive
           /\ globalTor' = globalTor
           /\ mgr' = mgr
           /\ resp'[t].code = 200
           /\ resp'[t].status.is_running = globalTor[1].is_running
           /\ resp'[t].status.is_bootstrapped = globalTor[1].is_bootstrapped
           /\ resp'[t].status.bootstrap_progress = globalTor[1].bootstrap_progress
           /\ resp'[t].status.socks_port = globalTor[1].socks_port
           /\ resp'[t].status.control_port = globalTor[1].control_port
           /\ resp'[t].status.exit_ip = globalTor[1].exit_ip
           /\ cfg'.tor_enabled
           /\ cfg'.tor_socks_port = globalTor[1].socks_port ]_vars

\* A second enable_tor has answered from the running supervisor.
C5_Witness ==
  \E t \in Conns :
    /\ pc[t] = "enable_return_running"
    /\ resp[t].status.is_bootstrapped
    /\ resp[t].status.socks_port > 0
    /\ alive # {}

\* No supervisor is stored and no disable_tor is between its stop and its
\* routing write: the time from a disable_tor's return to the next
\* successful enable_tor.
RelayOff == globalTor = None /\ \A u \in Conns : pc[u] # "disable_routing"

\* C6: when disable_tor returns, routing is off, the port is 0 and no
\* subprocess is alive; forwards and tunnels that choose their egress before
\* the next successful enable_tor dial directly.
C6_DisableTurnsRelayOff ==
  [][ \A t \in Conns :
        /\ (pc[t] = "disable_routing" /\ pc'[t] = "disable_return")
             => /\ cfg'.tor_enabled = FALSE
                /\ cfg'.tor_socks_port = 0
                /\ alive' = {}
                /\ globalTor' = None
        /\ (EgressStep(t) /\ RelayOff) => route'[t].via = "direct" ]_vars

\* A disable_tor has returned with routing off while a request that chose
\* the relay before it is still in flight.
C6_Witness ==
  \E t, u \in Conns :
    /\ pc[t] = "disable_return"
    /\ ~ cfg.tor_enabled /\ cfg.tor_socks_port = 0 /\ alive = {}
    /\ pc[u] = "forward_send" /\ route[u].via = "socks"

StatusConsistent(s) ==
  /\ s.is_bootstrapped => s.is_running
  /\ s.bootstrap_progress = 100 => s.is_bootstrapped

\* C7: in every status a caller can get (a response about to be written,
\* the stored supervisor GET /status and enable_tor read), bootstrapped
\* implies running and progress 100 implies bootstrapped.
C7_StatusInvariant ==
  /\ \A t \in Conns : pc[t] \in ReturnPcs => StatusConsistent(resp[t].status)
  /\ globalTor # None =>
       StatusConsistent([ is_running |-> globalTor[1].is_running,
                          is_bootstrapped |-> globalTor[1].is_bootstrapped,
                          bootstrap_progress |-> globalTor[1].bootstrap_progress ])

\* GET /status is about to report a bootstrapped relay.
C7_Witness ==
  \E t \in Conns :
    /\ pc[t] = "respond"
    /\ req[t].line = Line("GET", << "status" >>)
    /\ resp[t].status.bootstrap_progress = 100
    /\ resp[t].status.is_bootstrapped

\* The positions of global_enable_tor between taking the lock and returning.
StartPcs ==
  { "start", "bootstrap", "connect_control", "detect_exit_ip", "start_ok", "start_err" }

\* C8: a successful enable_tor leaves relay routing on at the stored
\* supervisor's non-zero SOCKS port; a failing one never writes the routing
\* fields and leaves no supervisor stored.
C8_EnableOutcome ==
  [][ \A t \in Conns :
        /\ (pc[t] # pc'[t] /\ pc'[t] \in { "enable_return_running", "enable_return_started" })
             => /\ resp'[t].code = 200
                /\ cfg'.tor_enabled
                /\ cfg'.tor_socks_port > 0
                /\ globalTor' # None
                /\ cfg'.tor_socks_port = globalTor'[1].socks_port
        /\ (pc[t] \in StartPcs /\ pc'[t] # "enable_return_started")
             => /\ cfg'.tor_enabled = cfg.tor_enabled
                /\ cfg'.tor_socks_port = cfg.tor_socks_port
        /\ (pc[t] # pc'[t] /\ pc'[t] = "enable_return_err")
             => resp'[t].code = 500 /\ globalTor' = None ]_vars

\* One enable_tor has failed and a later one has succeeded.
C8_Witness ==
  \E t, u \in Conns :
    /\ pc[t] = "enable_return_err" /\ resp[t].code = 500
    /\ pc[u] = "enable_return_started" /\ resp[u].code = 200
    /\ cfg.tor_enabled /\ cfg.tor_socks_port = globalTor[1].socks_port

C10_StopResetsAndIsIdempotent ==
  [][ \A t \in Conns :
        (pc[t] \in { "stop_first", "stop_second" } /\ pc'[t] # pc[t])
          => /\ globalTor'[1].is_running = FALSE
             /\ globalTor'[1].is_bootstrapped = FALSE
             /\ globalTor'[1].bootstrap_progress = 0
             /\ globalTor'[1].exit_ip = None
             /\ globalTor'[1].control_stream = FALSE
             /\ globalTor'[1].process = NoChild
             /\ globalTor[1].process \notin alive'
             /\ pc[t] = "stop_second" => (globalTor' = globalTor /\ alive' = alive) ]_vars

\* stop() has run twice on a supervisor that had been started.
C10_Witness ==
  \E t \in Conns :
    /\ pc[t] = "stop_done"
    /\ globalTor[1].socks_port > 0
    /\ ~ globalTor[1].is_running
    /\ globalTor[1].bootstrap_progress = 0

\* C11: whatever has been written to it, the upstream endpoint is unset or a
\* text that begins with http:// or https://: the empty text leaves it unset
\* and a refused text leaves the value it had.
C11_EndpointUnsetOrHttp ==
  \/ cfg.rpc_endpoint = None
  \/ Unwrap(cfg.rpc_endpoint) \in { "http://ep.example", "https://ep.example" }

\* C12 as stated: once the upstream call of a forwarded request has failed
\* at transport level, or has been answered with a status outside 200..299,
\* the response is 502 with the Proxy error body and the connection has
\* added nothing to requestsProxied or bytesTransferred.
C12_FailureOrNon2xxIs502 ==
  \A t \in Conns :
    (upstream[t].sent /\ (~ upstream[t].ok \/ upstream[t].status \notin 200 .. 299))
      => /\ pc[t] = "respond"
         /\ resp[t].code = 502
         /\ resp[t].body.text = "proxy_error"
         /\ counted[t] = NoCount

\* C12: a transport failure of the upstream call is answered 502 with the
\* Proxy error body and adds nothing to the counters; an upstream answer of
\* any status adds one request and its body's length, and the response
\* written for it carries the upstream's status.
C12_TransportFailureIs502 ==
  \A t \in Conns :
    upstream[t].sent
      => IF ~ upstream[t].ok
           THEN /\ pc[t] = "respond"
                /\ resp[t].code = 502
                /\ resp[t].body.text = "proxy_error"
                /\ counted[t] = NoCount
           ELSE /\ counted[t].requests_proxied = 1
                /\ counted[t].bytes_transferred = upstream[t].len
                /\ pc[t] = "respond" => resp[t].code = upstream[t].status

\* One upstream call has failed at transport level and another has been
\* answered with status 500.
C12_Witness ==
  \E t, u \in Conns :
    /\ pc[t] = "respond" /\ upstream[t].sent /\ ~ upstream[t].ok
    /\ pc[u] = "respond" /\ upstream[u].ok /\ upstream[u].status = 500

\* C13: every response written on the HTTP path declares a Content-Length
\* equal to the number of bytes of the body written after the header block.
C13_ContentLengthIsBodyLength ==
  \A t \in Conns :
    (pc[t] = "respond" /\ req[t].line.verb # "CONNECT")
      => /\ IsSome(resp[t].length)
         /\ Unwrap(resp[t].length) = resp[t].body.len

\* C14: the body of the GET /health response is the text
\* {"status":"ok","proxy":"running"} and is 35 bytes long.
C14_HealthBodyIs35Bytes ==
  \A t \in Conns :
    (pc[t] = "respond" /\ req[t].line = Line("GET", << "health" >>))
      => /\ resp[t].body.text = "{\"status\":\"ok\",\"proxy\":\"running\"}"
         /\ resp[t].body.len = 35

\* C15 as stated: a request that has been read whole and whose line matches
\* none of the built-in shapes goes to the JSON-RPC forward, a POST to
\* another path under /control/ included.
C15_UnmatchedIsForwarded ==
  [][ \A t \in Conns :
        LET line == req'[t].line
            builtin ==
              \/ \E p \in { "health", "status", "config", "test-routing" } :
                   starts_with(line, "GET", << p >>)
              \/ line.verb = "OPTIONS"
              \/ starts_with(line, "POST", << "decode" >>)
              \/ \E p \in { "enable_tor", "disable_tor", "new_circuit", "set_rpc", "clear_rpc" } :
                   starts_with(line, "POST", << "control", p >>)
        IN  (pc[t] = "idle" /\ pc'[t] \notin { "idle", "io_error" } /\ ~ builtin)
              => pc'[t] = "forward_route" ]_vars

\* C15: a request other than CONNECT that has been read whole and whose line
\* matches none of the built-in shapes goes to the JSON-RPC forward, unless
\* it is a POST to another path under /control/: that one is answered 404
\* and no upstream request is made for it.
C15_UnmatchedIsForwardedOr404 ==
  [][ \A t \in Conns :
        LET line == req'[t].line
            builtin ==
              \/ \E p \in { "health", "status", "config", "test-routing" } :
                   starts_with(line, "GET", << p >>)
              \/ line.verb = "OPTIONS"
              \/ starts_with(line, "POST", << "decode" >>)
              \/ \E p \in { "enable_tor", "disable_tor", "new_circuit", "set_rpc", "clear_rpc" } :
                   starts_with(line, "POST", << "control", p >>)
            under_control == starts_with(line, "POST", << "control" >>) /\ Len(line.path) >= 2
        IN  /\ (pc[t] = "idle" /\ pc'[t] \notin { "idle", "io_error" } /\ ~ builtin
                  /\ line.verb # "CONNECT")
              => pc'[t] = IF under_control THEN "unknown_control" ELSE "forward_route"
            /\ (pc[t] = "unknown_control" /\ pc'[t] # pc[t])
              => /\ pc'[t] = "respond"
                 /\ resp'[t].code = 404
                 /\ ~ upstream'[t].sent ]_vars

\* POST /control/reload has been answered 404 while a GET of an unknown path
\* is on its way upstream.
C15_Witness ==
  \E t, u \in Conns :
    /\ req[t].line = Line("POST", << "control", "reload" >>)
    /\ pc[t] = "respond" /\ resp[t].code = 404 /\ ~ upstream[t].sent
    /\ req[u].line = Line("GET", << "other" >>)
    /\ pc[u] = "forward_send"

\* C16: for a connection whose request line is empty or is no HTTP request
\* line, no response is written and no upstream request is made, and the
\* connection adds nothing to the counters.
C16_MalformedLineIsClosed ==
  \A t \in Conns :
    (pc[t] # "idle" /\ (req[t].line = NoLine \/ req[t].line.verb = "garbage"))
      => /\ resp[t] = NoResp
         /\ ~ upstream[t].sent
         /\ counted[t] = NoCount

\* C17: when the stream of a forward, POST /decode or POST /control request
\* ends before Content-Length bytes of body have arrived, the handler ends
\* with an I/O error: it writes no response, makes no upstream request and
\* adds nothing to the counters, and its return changes neither ProxyConfig
\* nor the supervisor.
C17_ShortBodyIsIoError ==
  [][ \A t \in Conns :
        LET line == req'[t].line
            bodiless ==
              \/ \E p \in { "health", "status", "config", "test-routing" } :
                   starts_with(line, "GET", << p >>)
              \/ line.verb \in { "OPTIONS", "CONNECT" }
        IN  /\ (req'[t].short /\ ~ bodiless)
              => /\ pc'[t] = "io_error"
                 /\ resp'[t] = NoResp
                 /\ ~ upstream'[t].sent
                 /\ counted'[t] = NoCount
            /\ (pc[t] = "io_error" /\ pc'[t] # pc[t])
              => (pc'[t] = "idle" /\ cfg' = cfg /\ globalTor' = globalTor) ]_vars

\* A POST /control/set_rpc and a JSON-RPC post have both ended with an I/O
\* error on a body cut short.
C17_Witness ==
  \E t, u \in Conns :
    /\ req[t].line = Line("POST", << "control", "set_rpc" >>)
    /\ req[t].short /\ pc[t] = "io_error"
    /\ req[u].line = PostRoot
    /\ req[u].short /\ pc[u] = "io_error"

\* C18: a CONNECT adds one to requestsProxied exactly when its dial has
\* succeeded and 200 Connection established has been sent, and keeps that one
\* for the life of the tunnel; a CONNECT whose dial has failed adds nothing,
\* is answered 502 with Content-Length 0 and no body, and relays no bytes.
C18_CountedOncePerTunnel ==
  \A t \in Conns :
    req[t].line.verb = "CONNECT"
      => /\ counted[t].requests_proxied = IF tunnel[t].state # "none" THEN 1 ELSE 0
         /\ tunnel[t].state # "none" => resp[t].code = 200
         /\ resp[t].code = 502
              => /\ counted[t] = NoCount
                 /\ resp[t].length = Some(0)
                 /\ resp[t].body.len = 0
                 /\ tunnel[t] = NoTunnel

\* One tunnel has relayed bytes and ended while another CONNECT's dial has
\* failed.
C18_Witness ==
  \E t, u \in Conns :
    /\ tunnel[t].state = "closed" /\ tunnel[t].to_target > 0
    /\ counted[t].requests_proxied = 1
    /\ req[u].line.verb = "CONNECT" /\ pc[u] = "respond" /\ resp[u].code = 502

\* C19: as soon as one copy direction of a tunnel has seen EOF or an error
\* the tunnel is over and both connections are closed; once it is over no
\* loop reads, counts or writes another byte.
C19_FirstEndClosesTunnel ==
  [][ \A t \in Conns :
        /\ tunnel'[t].ended # {}
             => (tunnel'[t].state = "closed" /\ pc'[t] = "tunnel_done")
        /\ tunnel[t].state = "closed"
             => /\ tunnel'[t] \in { tunnel[t], NoTunnel }
                /\ counted'[t] \in { counted[t], NoCount } ]_vars

\* The client's side has reached EOF while bytes from the target were
\* waiting to be written: the tunnel is over with that loop dropped.
C19_Witness ==
  \E t \in Conns :
    /\ tunnel[t].state = "closed"
    /\ tunnel[t].ended = { "client" }
    /\ tunnel[t].held_t2c > 0

\* C20: when a tunnel has ended, what it added to bytesTransferred is the
\* number of bytes read from the client plus the number read from the
\* target, and all of them have been written to the opposite side.
C20_CountedBytesAreRelayed ==
  \A t \in Conns :
    tunnel[t].state = "closed"
      => /\ counted[t].bytes_transferred = tunnel[t].from_client + tunnel[t].from_target
         /\ counted[t].bytes_transferred = tunnel[t].to_target + tunnel[t].to_client

\* C21: once the upstream has answered a forwarded request the client gets a
\* response, whatever the answer's body is and whether or not a transaction
\* was decoded; the body carries _privacyrpc only for a request whose method
\* is one of the four transaction methods, and is the upstream body otherwise.
C21_EnrichmentNeverFailsForward ==
  \A t \in Conns :
    (upstream[t].sent /\ upstream[t].ok)
      => /\ pc[t] = "respond"
         /\ resp[t].code = upstream[t].status
         /\ resp[t].body.text \in { "enriched", "upstream" }
         /\ resp[t].body.text = "enriched"
              => /\ IsSome(rpc_method(req[t].body))
                 /\ Unwrap(rpc_method(req[t].body)) \in
                      { "signTransaction", "signAllTransactions",
                        "sendTransaction", "simulateTransaction" }
         /\ resp[t].body.text = "upstream" => resp[t].body.len = upstream[t].len

\* C22: the accept loop leaves only on the shutdown signal, which only
\* stop_proxy_server sends: no handler that ends, with a response or with an
\* error, and no failed accept takes the loop or the signal away.
C22_HandlersNeverStopServer ==
  [][ /\ acceptLoops' < acceptLoops => shutdown = "sent"
      /\ (shutdown = "armed" /\ shutdown' = "sent") => (~ cfg'.running /\ pc' = pc)
      /\ \A t \in Conns :
           (pc[t] # "idle" /\ pc'[t] = "idle")
             => (acceptLoops' = acceptLoops /\ shutdown' = shutdown) ]_vars

\* While the loop runs, one handler is about to return an I/O error and
\* another is answering 502 for an upstream failure.
C22_Witness ==
  \E t, u \in Conns :
    /\ acceptLoops = 1 /\ shutdown = "armed"
    /\ pc[t] = "io_error"
    /\ pc[u] = "respond" /\ resp[u].code = 502 /\ upstream[u].sent

C24_FirstMatchingRule ==
  risk.stage = "graded"
    => LET danger == \E w \in DOMAIN risk.warnings : risk.warnings[w].level = "Danger"
           total == risk.total_sol_out
           over10 == total.sol > 10 \/ (total.sol = 10 /\ total.lamports > 0)
           over1 == total.sol > 1 \/ (total.sol = 1 /\ total.lamports > 0)
           unknowns ==
             Cardinality({ i \in DOMAIN risk.instructions :
                             risk.instructions[i].details.type = "Unknown" })
           approves == \E i \in DOMAIN risk.instructions :
                         risk.instructions[i].details.type = "TokenApprove"
       IN  /\ risk.risk_level \in { "Low", "Medium", "High", "Critical" }
           /\ risk.risk_level =
                CASE danger -> "Critical"
                  [] ~ danger /\ over10 -> "High"
                  [] ~ danger /\ ~ over10 /\ over1 -> "Medium"
                  [] ~ danger /\ ~ over1 /\ unknowns > 3 -> "Medium"
                  [] ~ danger /\ ~ over1 /\ unknowns <= 3 /\ approves -> "Medium"
                  [] OTHER -> "Low"
           /\ calculate_risk_level(risk.instructions, risk.warnings, risk.total_sol_out)
                = risk.risk_level

\* A transaction with four Unknown instructions and more than 10 SOL out has
\* been graded, and the High Value Transaction warning pushed.
C24_Witness ==
  /\ risk.stage = "graded"
  /\ Len(risk.instructions) = 4
  /\ \A i \in DOMAIN risk.instructions : risk.instructions[i].details.type = "Unknown"
  /\ risk.total_sol_out = Sol(10, 1)
  /\ risk.risk_level = "High"
  /\ \E w \in DOMAIN risk.warnings : risk.warnings[w].title = "High Value Transaction"

\* C28: reading the standard encoding of a value in 0..65535 gives the value
\* back and reports 1 byte consumed for 0..0x7F, 2 for 0x80..0x3FFF and 3 for
\* 0x4000..0xFFFF; reading an encoding that lacks its last byte is an error.
C28_CompactRoundTrip ==
  compact.stage = "read"
    => IF compact.cut = 0
         THEN /\ compact.result.ok
              /\ compact.result.value.value = compact.value
              /\ compact.result.value.len =
                   IF compact.value <= 127 THEN 1
                   ELSE IF compact.value <= 16383 THEN 2 ELSE 3
              /\ compact.result.value.len = Len(compact.bytes)
         ELSE ~ compact.result.ok

\* The largest value has been read back from its three bytes, of which the
\* last is 3.
C28_Witness ==
  /\ compact.stage = "read"
  /\ compact.cut = 0
  /\ compact.bytes = << 255, 255, 3 >>
  /\ compact.result.ok
  /\ compact.result.value = [ value |-> 65535, len |-> 3 ]

\* C25: a transaction whose byte string ends before a declared element is
\* complete (here: the wire form of a transaction without its last bytes)
\* is never decoded successfully; decoding fails with an error.
C25_TruncationIsAnError ==
  (/\ decoder.stage = "decoded"
   /\ decoder.encoding = "base64"
   /\ decoder.tx # NoTx
   /\ decoder.cut > 0)
    => ~decoder.result.ok

\* C26: in the decoded form of a whole transaction every account reference
\* that is out of range (a position beyond the instruction's account-index
\* list, or an index beyond the message's account keys) is the text
\* "Unknown": the program id, the from/to and source/delegate fields, and
\* each entry of the accounts list of an instruction of the Memo program or
\* of a program the decoder does not know, which has one entry for every
\* account index.
C26_OutOfRangeIsUnknown ==
  (/\ decoder.stage = "decoded"
   /\ decoder.encoding = "base64"
   /\ decoder.cut = 0
   /\ decoder.result.ok)
    => \A i \in 1 .. Len(decoder.tx.instructions) :
         LET ins == decoder.tx.instructions[i]
             out == decoder.result.value.instructions[i]
             in_keys(index) == index < Len(decoder.tx.account_keys)
             in_range(position) ==
               /\ position < Len(ins.account_indices)
               /\ in_keys(ins.account_indices[position + 1])
         IN  /\ ~in_keys(ins.program_id_index) => out.program_id = UNKNOWN
             /\ out.details.type \in { "SolTransfer", "TokenTransfer" }
                  => /\ ~in_range(0) => out.details.from = UNKNOWN
                     /\ ~in_range(1) => out.details.to = UNKNOWN
             /\ out.details.type = "TokenApprove"
                  => /\ ~in_range(0) => out.details.source = UNKNOWN
                     /\ ~in_range(1) => out.details.delegate = UNKNOWN
             /\ (/\ out.details.type = "Unknown"
                 /\ out.program_id \notin { SYSTEM_PROGRAM, TOKEN_PROGRAM,
                                            TOKEN_2022_PROGRAM, COMPUTE_BUDGET_PROGRAM })
                  => /\ Len(out.details.accounts) = Len(ins.account_indices)
                     /\ \A j \in 1 .. Len(ins.account_indices) :
                          ~in_keys(ins.account_indices[j])
                            => out.details.accounts[j] = UNKNOWN

\* C27: the result of decode_transaction on the text of a byte string in one
\* encoding (the decoded transaction or the error) is its result on the text
\* of the same byte string in the other encoding.
C27_SameResultInBothEncodings ==
  (/\ decoder.stage = "decoded"
   /\ decoder.encoding \in { "base64", "base58" }
   /\ Len(decoder.bytes) <= MaxBase58Len)
    => decoder.result =
         decode_transaction(encode(decoder.bytes,
                                   IF decoder.encoding = "base64" THEN "base58"
                                                                  ELSE "base64"))

\* C29: decode_transaction answers an error, never a decoded transaction, to
\* the empty text and to every text that stands for fewer than four bytes:
\* the text of such a byte string in either encoding, and any text the
\* decoder reads as fewer than four bytes.
C29_ShortInputIsAnError ==
  (/\ decoder.stage = "decoded"
   /\ \/ Len(decoder.encoded) = 0
      \/ decoder.encoding \in { "base64", "base58" } /\ Len(decoder.bytes) < 4
      \/ tx_bytes(decoder.encoded).ok /\ Len(tx_bytes(decoder.encoded).value) < 4)
    => ~decoder.result.ok

C29_Witness ==
  /\ decoder.stage = "decoded"
  /\ decoder.encoding = "base58"
  /\ Len(decoder.bytes) \in 1 .. 3
  /\ decoder.result = Err("Transaction too short")

\* C30: the Config a builder builds keeps what the calls on it set:
\* primary_rpc is the URL of the last call that gave one (primary_rpc with
\* its argument, use_helius and use_alchemy with the URL of the provider for
\* the key) or https://api.mainnet-beta.solana.com when no call gave one,
\* fallback_rpcs is the URLs of the add_fallback calls in their order, and
\* proxy_port is the port of the last proxy_port call, or 8899 when there
\* was none or the port was 0.
C30_BuilderKeepsWhatWasSet ==
  builder.stage = "built" =>
    LET calls == builder.calls
        of(methods) == { i \in 1 .. Len(calls) : calls[i].method \in methods }
        last(set) == CHOOSE i \in set : \A j \in set : j <= i
        gave_url == of({ "primary_rpc", "use_helius", "use_alchemy" })
        gave_port == of({ "proxy_port" })
        url(call) ==
          IF call.method = "primary_rpc" THEN call.url
          ELSE IF call.method = "use_helius"
            THEN "https://mainnet.helius-rpc.com/?api-key=" \o call.api_key
          ELSE alchemy_url(call.api_key, call.chain)
        RECURSIVE fallbacks(_)
        fallbacks(i) ==
          IF i > Len(calls) THEN << >>
          ELSE (IF calls[i].method = "add_fallback" THEN << calls[i].url >> ELSE << >>)
               \o fallbacks(i + 1)
    IN  /\ builder.config.primary_rpc =
             IF gave_url = { } THEN "https://api.mainnet-beta.solana.com"
                               ELSE url(calls[last(gave_url)])
        /\ builder.config.fallback_rpcs = fallbacks(1)
        /\ builder.config.proxy_port =
             IF gave_port = { } \/ calls[last(gave_port)].port = 0
               THEN 8899 ELSE calls[last(gave_port)].port

C30_Witness ==
  /\ builder.stage = "built"
  /\ Len(builder.calls) = MaxCalls
  /\ builder.calls[1].method = "primary_rpc"
  /\ builder.calls[2].method = "use_helius"
  /\ builder.calls[3].method = "add_fallback"
  /\ builder.config.primary_rpc = "https://mainnet.helius-rpc.com/?api-key=test-key"
  /\ builder.config.proxy_port = 8899

(* --------------- who writes the routing fields of PROXY_CONFIG -------- *)

\* One request for each handler of handle_connection, and the writers of
\* the routing fields beside them: set_rpc, clear_rpc and the relay
\* switches.
FrameLines ==
  { Line("GET", << "health" >>), Line("GET", << "status" >>), Line("GET", << "config" >>),
    Line("GET", << "test-routing" >>), Line("OPTIONS", << "*" >>), Line("POST", << "decode" >>),
    Line("CONNECT", << "example.com", "443" >>),
    Line("POST", << "control", "enable_tor" >>), Line("POST", << "control", "disable_tor" >>),
    Line("POST", << "control", "clear_rpc" >>) }
FrameRequests ==
  [ line : FrameLines, headers : { << >> }, body : { NotJson }, ends : { "complete" } ]
    \cup [ line : { PostRoot }, headers : { << >> }, body : { RpcBody(JStr("getSlot")) },
           ends : { "complete" } ]
    \cup [ line : { Line("POST", << "control", "set_rpc" >>) }, headers : { << >> },
           body : { UrlBody(JStr("https://ep.example")) }, ends : { "complete" } ]

AcceptFrame(t) == AcceptFrom(t, FrameRequests)

NextFrame ==
  \/ StartProxyServer
  \/ LoadConfigFile
  \/ SetRpcEndpointCommand
  \/ \E t \in Conns :
       \/ AcceptFrame(t)
       \/ Respond(t)
       \/ HandlerReturn(t)
       \/ ForwardRoute(t)
       \/ ForwardClient(t)
       \/ ForwardSend(t)
       \/ ConnectConfig(t)
       \/ ConnectDial(t)
       \/ \E d \in Dirs :
            \/ TunnelRead(t, d)
            \/ TunnelWrite(t, d)
            \/ TunnelEof(t, d)
       \/ StatusConfig(t)
       \/ StatusTor(t)
       \/ SetRpc(t)
       \/ ClearRpc(t)
       \/ Health(t)
       \/ TestRouting(t)
       \/ Config(t)
       \/ Options(t)
       \/ Decode(t)
       \/ EnableRunning(t)
       \/ EnableBegin(t)
       \/ StartFailEarly(t)
       \/ StartSpawn(t)
       \/ BootstrapLine(t)
       \/ BootstrapTimeout(t)
       \/ ConnectControl(t)
       \/ DetectExitIp(t)
       \/ EnableStore(t)
       \/ EnableFail(t)
       \/ DisableStop(t)
       \/ DisableRouting(t)

SpecFrame == Init /\ [][NextFrame]_vars

\* C31: a step of the handler of GET /health, GET /status, GET /config,
\* GET /test-routing, OPTIONS, POST /decode, a JSON-RPC forward or a
\* CONNECT tunnel leaves tor_enabled, tor_socks_port and rpc_endpoint as
\* they are; when one of them changes, the step is one of set_rpc,
\* clear_rpc, enable_tor or disable_tor, or of no handler at all (the
\* desktop shell).
C31_HandlersLeaveRoutingFields ==
  [][ LET FramePcs == { "health", "status_config", "status_tor", "config", "test_routing",
                        "options", "decode", "forward_route", "forward_client",
                        "forward_send", "connect_config", "connect_dial", "tunnel" }
          WriterPcs == { "set_rpc", "clear_rpc", "enable_tor", "start_ok", "disable_routing" }
          steps(t) == pc'[t] # pc[t] \/ tunnel'[t] # tunnel[t]
          kept == /\ cfg'.tor_enabled = cfg.tor_enabled
                  /\ cfg'.tor_socks_port = cfg.tor_socks_port
                  /\ cfg'.rpc_endpoint = cfg.rpc_endpoint
      IN  /\ \A t \in Conns : (pc[t] \in FramePcs /\ steps(t)) => kept
          /\ ~ kept => \/ \E t \in Conns : pc[t] \in WriterPcs /\ steps(t)
                       \/ \A t \in Conns : ~ steps(t) ]_vars

\* A GET /config has been answered while relay routing is on and an
\* upstream endpoint is set.
C31_Witness ==
  \E t \in Conns :
    /\ pc[t] = "respond"
    /\ req[t].line = Line("GET", << "config" >>)
    /\ cfg.tor_enabled /\ cfg.tor_socks_port > 0 /\ IsSome(cfg.rpc_endpoint)

(* ------------------ the relay switches and new_circuit ---------------- *)

\* The requests that reach the supervisor: GET /status and the control
\* endpoints enable_tor, disable_tor and new_circuit.
CircuitRequests ==
  [ line : { Line("GET", << "status" >>), Line("POST", << "control", "enable_tor" >>),
             Line("POST", << "control", "disable_tor" >>),
             Line("POST", << "control", "new_circuit" >>) },
    headers : { << >> }, body : { NotJson }, ends : { "complete" } ]

AcceptCircuit(t) == AcceptFrom(t, CircuitRequests)

\* The steps of one connection task on these requests.
CircuitStep(t) ==
  \/ Respond(t)
  \/ StatusConfig(t)
  \/ StatusTor(t)
  \/ NewCircuit(t)
  \/ NewCircuitClear(t)
  \/ NewCircuitDetect(t)
  \/ EnableRunning(t)
  \/ EnableBegin(t)
  \/ StartFailEarly(t)
  \/ StartSpawn(t)
  \/ BootstrapLine(t)
  \/ BootstrapEof(t)
  \/ BootstrapTimeout(t)
  \/ ConnectControl(t)
  \/ DetectExitIp(t)
  \/ EnableStore(t)
  \/ EnableFail(t)
  \/ DisableStop(t)
  \/ DisableRouting(t)

NextCircuit ==
  \/ StartProxyServer
  \/ ChildExit
  \/ \E t \in Conns :
       \/ AcceptCircuit(t)
       \/ CircuitStep(t)

SpecCircuit == Init /\ [][NextCircuit]_vars

\* C32: new_circuit returns an error (500) and leaves the supervisor as it
\* was when there is no supervisor, when it is not bootstrapped and when
\* NEWNYM is not acknowledged; once NEWNYM is acknowledged the cached exit
\* address is cleared, and when new_circuit returns the cached address is
\* the value returned.
C32_NewCircuitErrorsAndRefreshes ==
  [][ \A t \in Conns :
        /\ (pc[t] = "new_circuit" /\ pc'[t] # pc[t]) =>
             /\ globalTor' = globalTor /\ alive' = alive /\ cfg' = cfg
             /\ (globalTor = None \/ ~ Unwrap(globalTor).is_bootstrapped) =>
                  pc'[t] = "respond"
             /\ pc'[t] = "respond" => resp'[t].code = 500
             /\ pc'[t] # "respond" => pc'[t] = "new_circuit_clear"
        /\ (pc[t] = "new_circuit_clear" /\ pc'[t] # pc[t]) =>
             /\ Unwrap(globalTor').exit_ip = None
             /\ pc'[t] = "new_circuit_detect"
        /\ (pc[t] = "new_circuit_detect" /\ pc'[t] # pc[t]) =>
             /\ pc'[t] = "respond" /\ resp'[t].code = 200
             /\ Unwrap(globalTor').exit_ip = resp'[t].status.exit_ip
             /\ [ Unwrap(globalTor') EXCEPT !.exit_ip = None ]
                  = [ Unwrap(globalTor) EXCEPT !.exit_ip = None ] ]_vars

\* A new_circuit has returned the address it detected, and the supervisor
\* caches that address.
C32_Witness ==
  \E t \in Conns :
    /\ pc[t] = "respond"
    /\ req[t].line = Line("POST", << "control", "new_circuit" >>)
    /\ resp[t].code = 200
    /\ IsSome(resp[t].status.exit_ip)
    /\ IsSome(globalTor) /\ Unwrap(globalTor).exit_ip = resp[t].status.exit_ip

\* The steps a task takes by itself once it is polled: every step but the
\* arrival of a line on the relay's stdout, which is the relay's to give.
CircuitProgress(t) ==
  \/ Respond(t)
  \/ StatusConfig(t)
  \/ StatusTor(t)
  \/ NewCircuit(t)
  \/ NewCircuitClear(t)
  \/ NewCircuitDetect(t)
  \/ EnableRunning(t)
  \/ EnableBegin(t)
  \/ StartFailEarly(t)
  \/ StartSpawn(t)
  \/ BootstrapEof(t)
  \/ BootstrapTimeout(t)
  \/ ConnectControl(t)
  \/ DetectExitIp(t)
  \/ EnableStore(t)
  \/ EnableFail(t)
  \/ DisableStop(t)
  \/ DisableRouting(t)

\* The runtime polls every task that is ready, every timer fires (the 120 s
\* of the bootstrap, the 5 s of a control command, the 15 s of the exit
\* probe), and the GLOBAL_TOR mutex (tokio::sync::Mutex) hands the lock to
\* its waiters in the order they came.
SpecCircuitFair ==
  /\ Init /\ [][NextCircuit]_vars
  /\ \A t \in Conns : SF_vars(CircuitProgress(t))

\* C33: every enable_tor returns; a start that is waiting for the relay to
\* report 100% ends; when it ends without the 100% the stop sequence has
\* run (no child is left, the flags are reset), the error is reported (500)
\* and the GLOBAL_TOR lock is released.
C33_EnableTorReturns ==
  /\ \A t \in Conns :
       /\ (pc[t] = "enable_tor") ~>
            (pc[t] \in { "enable_return_running", "enable_return_started",
                         "enable_return_err" })
       /\ (pc[t] = "bootstrap") ~> (pc[t] # "bootstrap")
  /\ [][ \A t \in Conns :
           /\ (pc[t] = "bootstrap" /\ pc'[t] = "start_err") =>
                /\ Unwrap(mgr'[t]).process = NoChild
                /\ Unwrap(mgr[t]).process \notin alive'
                /\ ~ Unwrap(mgr'[t]).is_running
                /\ ~ Unwrap(mgr'[t]).is_bootstrapped
                /\ Unwrap(mgr'[t]).bootstrap_progress = 0
           /\ (pc[t] = "start_err" /\ pc'[t] # pc[t]) =>
                /\ pc'[t] = "enable_return_err"
                /\ resp'[t].code = 500
                /\ torLock = t /\ torLock' = NoHolder ]_vars

\* An enable_tor has ended with the error and nothing left behind, the lock
\* is free, and another control request is about to take it.
C33_Witness ==
  \E t \in Conns, u \in Conns :
    /\ pc[t] = "enable_return_err" /\ resp[t].code = 500
    /\ pc[u] \in { "enable_tor", "disable_tor", "new_circuit", "status_tor" }
    /\ torLock = NoHolder /\ alive = {} /\ mgr[t] = None

\* C34: the bootstrap progress a supervisor holds, and the progress a
\* status reports, is within 0..100.
C34_ProgressWithinRange ==
  /\ \A t \in Conns : IsSome(mgr[t]) => Unwrap(mgr[t]).bootstrap_progress \in 0 .. 100
  /\ IsSome(globalTor) => Unwrap(globalTor).bootstrap_progress \in 0 .. 100
  /\ \A t \in Conns : resp[t] # NoResp => resp[t].status.bootstrap_progress \in 0 .. 100

(* ------------- transaction_decoder.rs: System instructions ------------ *)

\* The data of the System-program instructions decoded: every byte string
\* of at most MaxDataLen bytes over the opcodes 0, 1, 2 and the byte 3, and
\* discriminator 2 followed by eight, or by only four, bytes of lamports.
MaxDataLen == 4
SystemData ==
  UNION { [ 1 .. n -> 0 .. 3 ] : n \in 0 .. MaxDataLen }
    \cup { << 2, 0, 0, 0 >> \o le_bytes(n, 8) : n \in { 0, 1, 1500000000 } }
    \cup { << 2, 0, 0, 0 >> \o le_bytes(1, 4), << 0, 0, 0, 0 >> \o le_bytes(1, 8),
           << 1, 0, 0, 0 >> \o le_bytes(1, 8), << 3, 0, 0, 0 >> \o le_bytes(1, 8) }

\* One call of decode_system_instruction, on an instruction with the
\* account indices 0 and 1 of a transaction with two account keys.
InitSystem ==
  /\ ProxyAtRest
  /\ risk = NoRun /\ compact = NoRun /\ builder = NoRun
  /\ \E data \in SystemData :
       decoder = [ stage |-> "data", data |-> data, account_indices |-> << 0, 1 >>,
                   account_keys |-> << ASSOCIATED_TOKEN_PROGRAM, SYSTEM_PROGRAM >>,
                   result |-> Instruction(Text(""), Text(""), UnknownDetails(Text(""), << >>)) ]

DecodeSystemInstruction ==
  /\ decoder.stage = "data"
  /\ decoder' = [ decoder EXCEPT !.stage = "instruction",
                    !.result = decode_system_instruction(decoder.data, decoder.account_indices,
                                                         decoder.account_keys) ]
  /\ UNCHANGED << proxy_vars, risk, compact, builder >>

NextSystem == DecodeSystemInstruction

SpecSystem == InitSystem /\ [][NextSystem]_vars

\* C35: a System instruction is a SolTransfer exactly when its first four
\* data bytes are 2 as a little-endian u32, and its lamports are then the
\* eight bytes at offsets 4..12; data of fewer than four bytes is none of
\* Transfer, Create Account (Unknown with two accounts) and Assign (Unknown
\* with one account).
C35_DiscriminatorIsFourBytes ==
  decoder.stage = "instruction" =>
    LET data == decoder.data
        details == decoder.result.details
    IN  /\ details.type = "SolTransfer" <=>
             (Len(data) >= 4 /\ SubSeq(data, 1, 4) = << 2, 0, 0, 0 >>)
        /\ (details.type = "SolTransfer" /\ Len(data) >= 12) =>
             details.amount_lamports = SubSeq(data, 5, 12)
        /\ Len(data) < 4 => (details.type = "Unknown" /\ details.accounts = << >>)

(* ------------------- the listener started more than once -------------- *)

\* The ports the desktop shell can be told to listen on (set_proxy_port).
MaxListeners == 2

StartProxyServerAnyPort == StartProxyServerOn(MaxListeners)

NextListener ==
  \/ StartProxyServerAnyPort
  \/ StopProxyServer
  \/ AcceptLoopExit
  \/ AcceptError
  \/ \E t \in Conns :
       \/ AcceptServe(t)
       \/ HandlerStep(t)

SpecListener == Init /\ [][NextListener]_vars

\* C36: when no accept loop has a signal left to act on, running is true
\* exactly when an accept loop is live.
C36_RunningIffListening ==
  LET signalled == acceptLoops - (IF shutdown = "armed" THEN 1 ELSE 0)
  IN  signalled = 0 => (cfg.running <=> acceptLoops > 0)

\* C37: whenever PROXY_CONFIG says relay routing is on, with a SOCKS port,
\* the supervisor in GLOBAL_TOR is running, bootstrapped and has that SOCKS
\* port: a handler that takes its snapshot then routes to a relay that has
\* not been stopped.
C37_RoutingOnlyToRunningRelay ==
  use_relay(cfg) =>
    /\ IsSome(globalTor)
    /\ Unwrap(globalTor).is_running
    /\ Unwrap(globalTor).is_bootstrapped
    /\ Unwrap(globalTor).socks_port = cfg.tor_socks_port

\* C38: a stored supervisor whose status says running has a live relay
\* subprocess, and an enable_tor that returns the stored status instead of
\* starting a relay finds that subprocess alive.
C38_RunningMeansAlive ==
  /\ (IsSome(globalTor) /\ get_status(Unwrap(globalTor)).is_running)
       => Unwrap(globalTor).process \in alive
  /\ \A t \in Conns :
       pc[t] = "enable_return_running" => Unwrap(globalTor).process \in alive

(* --------------------- the peek at a split request -------------------- *)

\* CONNECT requests and a JSON-RPC post, each with a first segment of any
\* length from one byte to the whole peek buffer.
SplitRequests ==
  TunnelRequests
    \cup [ line : { PostRoot }, headers : { << >> }, body : { RpcBody(JStr("getSlot")) },
           ends : { "complete" } ]

AcceptSplit(t) == AcceptPeeked(t, SplitRequests, 1 .. PEEK_LEN)

NextSplit ==
  \/ StartProxyServer
  \/ \E t \in Conns :
       \/ AcceptSplit(t)
       \/ Respond(t)
       \/ HandlerReturn(t)
       \/ ForwardRoute(t)
       \/ ForwardClient(t)
       \/ ForwardSend(t)
       \/ ConnectConfig(t)
       \/ ConnectDial(t)
       \/ \E d \in Dirs : TunnelEof(t, d)

SpecSplit == Init /\ [][NextSplit]_vars

\* C39: a connection whose request line begins with CONNECT is never on
\* the JSON-RPC forward path and nothing is sent upstream for it.
C39_ConnectAlwaysTunnels ==
  \A t \in Conns :
    req[t].line.verb = "CONNECT" =>
      /\ pc[t] \notin { "forward_route", "forward_client", "forward_send" }
      /\ ~ upstream[t].sent

\* C40: a GET /status that has come to read the supervisor is answered at
\* once, whatever enable_tor, disable_tor or new_circuit is under way: its
\* next step, the answer with the status as it is, can always be taken.
C40_StatusNeverWaits ==
  \A t \in Conns : pc[t] = "status_tor" => ENABLED StatusTor(t)

====
